---- MODULE Spec2Model ----
(***************************************************************************)
(* A model of the two Neo <-> NIX mapping engines of python-neo-nixio:     *)
(*   neonix/io/nixio.py  (NixIO with an identity map and path resolver)    *)
(*   neo2nix/nixio.py    (NixIO working by name, with reconciliation)      *)
(*                                                                         *)
(* Strings (names, paths) are sequences of tokens.  A token is a piece of  *)
(* text holding none of the separators "/", "." and "-"; the separators    *)
(* and the decimal digits are tokens of their own, so that split, join,    *)
(* format and lexicographic comparison are computed as Python does.        *)
(* An absent / falsy optional value is <<>>, a present one is <<v>>.       *)
(***************************************************************************)
EXTENDS Integers, Sequences, FiniteSets, TLC

VARIABLES
    objs,       \* neonix: the NIX file, a table of container objects; index = id
    object_map, \* neonix: NixIO._object_map
    lazy_loaded,\* neonix: NixIO._lazy_loaded
    heap,       \* neonix: the Neo objects built by the read methods
    ret,        \* neonix: the last public call, its arguments and its outcome
    f2,         \* neo2nix: the NIX file (blocks, tags, arrays, sections)
    neo2,       \* neo2nix: the caller's Block, as last handed to write_block
    ret2        \* neo2nix: the last public call and its outcome

vars == <<objs, object_map, lazy_loaded, heap, ret, f2, neo2, ret2>>

-----------------------------------------------------------------------------
(* Python string primitives                                                *)

Digits == <<"0", "1", "2", "3", "4", "5", "6", "7", "8", "9">>

\* "{}".format(n) for a natural number n
RECURSIVE Str(_)
Str(n) == IF n < 10 THEN <<Digits[n + 1]>>
          ELSE Str(n \div 10) \o <<Digits[(n % 10) + 1]>>

\* ord() of the first character of a token: ASCII for separators and digits
Ord(c) ==
    CASE c = "-" -> 45
      [] c = "." -> 46
      [] c = "/" -> 47
      [] c \in {Digits[i] : i \in 1..10} -> 47 + (CHOOSE i \in 1..10 : Digits[i] = c)
      [] c = "A" -> 65
      [] c = "B" -> 66
      [] OTHER -> 110

\* s < t for Python strings (lexicographic)
RECURSIVE StrLt(_, _)
StrLt(s, t) ==
    IF t = <<>> THEN FALSE
    ELSE IF s = <<>> THEN TRUE
    ELSE IF Ord(Head(s)) # Ord(Head(t)) THEN Ord(Head(s)) < Ord(Head(t))
    ELSE StrLt(Tail(s), Tail(t))

\* s.split(sep)
RECURSIVE split(_, _)
split(s, sep) ==
    IF \A i \in 1..Len(s) : s[i] # sep THEN <<s>>
    ELSE LET i == CHOOSE j \in 1..Len(s) :
                     s[j] = sep /\ \A k \in 1..(j - 1) : s[k] # sep
         IN  <<SubSeq(s, 1, i - 1)>> \o split(SubSeq(s, i + 1, Len(s)), sep)

\* sep.join(parts)
RECURSIVE join(_, _)
join(parts, sep) ==
    IF parts = <<>> THEN <<>>
    ELSE IF Len(parts) = 1 THEN parts[1]
    ELSE parts[1] \o <<sep>> \o join(Tail(parts), sep)

\* parts[:-n]
DropLast(parts, n) == SubSeq(parts, 1, Len(parts) - n)

\* the elements of a sequence
Range(s) == {s[i] : i \in 1..Len(s)}

\* sorted(group, key=lambda d: d.name) on a list of <<name, id>> pairs.
\* Python's sort is stable: equal names keep their order.
RECURSIVE SortedByName(_)
SortedByName(pairs) ==
    IF pairs = <<>> THEN <<>>
    ELSE LET rest == SortedByName(Tail(pairs))
             h    == Head(pairs)
             pos  == Cardinality({i \in 1..Len(rest) :
                         \A j \in 1..i : StrLt(rest[j][1], h[1])})
         IN  SubSeq(rest, 1, pos) \o <<h>> \o SubSeq(rest, pos + 1, Len(rest))

-----------------------------------------------------------------------------
(* The NIX container store used by neonix (nixio.File)                     *)

\* A container object.  kind is one of "block", "group", "source",
\* "data_array", "multi_tag", "section"; parent is the id of the owner
\* (0: the file); metadata is a section id (0: None); data_arrays and
\* multi_tags are a Group's links; sources and references are links too.
NixBlank ==
    [kind |-> "", name |-> <<>>, type |-> "", parent |-> 0,
     definition |-> <<>>, metadata |-> 0, created_at |-> <<>>,
     sources |-> <<>>, data_arrays |-> <<>>, multi_tags |-> <<>>,
     references |-> <<>>, positions |-> 0, extents |-> 0, features |-> <<>>,
     data |-> <<>>, unit |-> <<>>, dims |-> <<>>, props |-> <<>>]

\* a dimension descriptor of a DataArray
Dim(dtype, label, unit, offset, interval, ticks) ==
    [dtype |-> dtype, label |-> label, unit |-> unit, offset |-> offset,
     sampling_interval |-> interval, ticks |-> ticks, labels |-> <<>>]

\* the state a call works on: the file, the identity map, the lazy list, the
\* Neo objects built so far, the pending exception ("" when none), the
\* warnings issued, and the order in which this run iterates a set of two
\* strings (rev: the second one first)
Ctx(o, m, l, h) ==
    [objs |-> o, map |-> m, lazy |-> l, heap |-> h, err |-> "", warn |-> <<>>,
     rev |-> FALSE]

Raise(st, e) == IF st.err # "" THEN st ELSE [st EXCEPT !.err = e]

\* Only({ e : v \in {x} }) is e with v bound to the value of x: the way a
\* result that later statements use more than once is named.  A chain of
\* statements reads from the innermost binding (the last line) upwards.
Only(S) == CHOOSE e \in S : TRUE

\* the ids of the objects of kind k owned by p, in creation order
ChildIds(o, p, k) ==
    SelectSeq([i \in 1..Len(o) |-> i],
              LAMBDA i : o[i].kind = k /\ o[i].parent = p)

NamesOf(o, ids) == {o[ids[i]].name : i \in 1..Len(ids)}

\* container[name]: the id of the member called name, 0 when there is none
ByName(o, ids, name) ==
    IF \E i \in 1..Len(ids) : o[ids[i]].name = name
    THEN ids[CHOOSE i \in 1..Len(ids) : o[ids[i]].name = name]
    ELSE 0

\* which kind of object an attribute of an object of kind k holds, "" when
\* objects of kind k have no such attribute
OwnedKind(k, attr) ==
    CASE k = "file" /\ attr = "blocks" -> "block"
      [] k = "file" /\ attr = "sections" -> "section"
      [] k = "block" /\ attr = "groups" -> "group"
      [] k = "block" /\ attr = "data_arrays" -> "data_array"
      [] k = "block" /\ attr = "multi_tags" -> "multi_tag"
      [] k = "block" /\ attr = "sources" -> "source"
      [] k = "source" /\ attr = "sources" -> "source"
      [] k = "section" /\ attr = "sections" -> "section"
      [] OTHER -> ""

LinkAttrs(k) ==
    CASE k = "group" -> {"data_arrays", "multi_tags", "sources"}
      [] k = "data_array" -> {"sources"}
      [] k = "multi_tag" -> {"sources", "references"}
      [] OTHER -> {}

\* hasattr(nix_obj, attr)
HasAttr(o, id, attr) ==
    LET k == IF id = 0 THEN "file" ELSE o[id].kind
    IN  OwnedKind(k, attr) # "" \/ attr \in LinkAttrs(k)

\* getattr(nix_obj, attr): the ids in the collection, in order
Collection(o, id, attr) ==
    LET k == IF id = 0 THEN "file" ELSE o[id].kind
    IN  IF OwnedKind(k, attr) # "" THEN ChildIds(o, id, OwnedKind(k, attr))
        ELSE CASE attr = "data_arrays" -> o[id].data_arrays
               [] attr = "multi_tags" -> o[id].multi_tags
               [] attr = "references" -> o[id].references
               [] OTHER -> o[id].sources

\* parent.create_<kind>(name, type, ...): the store refuses a name that the
\* target collection already holds (DuplicateName)
Create(st, rec) ==
    IF st.err # "" THEN st
    ELSE IF rec.name \in NamesOf(st.objs, ChildIds(st.objs, rec.parent, rec.kind))
    THEN Raise(st, "DuplicateName." \o rec.kind)
    ELSE [st EXCEPT !.objs = Append(@, rec)]

\* the id of the object the last successful Create made
NewId(st) == Len(st.objs)

\* obj.<field> = value
SetField(st, id, fld, val) ==
    IF st.err # "" THEN st
    ELSE [st EXCEPT !.objs[id] = [@ EXCEPT ![fld] = val]]

\* obj.<links>.append(target) / extend
AppendLinks(st, id, fld, targets) ==
    IF st.err # "" THEN st
    ELSE [st EXCEPT !.objs[id] = [@ EXCEPT ![fld] = @ \o targets]]

\* section.create_property(name, values)
create_property(st, sec, name, values) ==
    IF st.err # "" THEN st
    ELSE IF \E i \in 1..Len(st.objs[sec].props) : st.objs[sec].props[i].name = name
    THEN Raise(st, "DuplicateName.property")
    ELSE [st EXCEPT !.objs[sec].props =
                        Append(@, [name |-> name, values |-> values])]

\* self._object_map[key] = value
MapPut(st, key, value) ==
    IF st.err # "" THEN st
    ELSE [st EXCEPT !.map = (key :> value) @@ @]

-----------------------------------------------------------------------------
(* Neo objects handed to the write methods                                 *)

\* One record shape for every Neo class.  oid is the object's identity
\* (Python's id()); reference lists (a group's signals, a unit's spike
\* trains) hold the oids of the objects they refer to; signal holds one
\* payload per channel (the rows of signal.transpose()).  In an object
\* built by a read method the child lists hold heap indices, and lazylists
\* holds <<container, paths>> for every child list that is a LazyList.
NeoBlank ==
    [cls |-> "", oid |-> 0, name |-> <<>>, description |-> <<>>,
     file_origin |-> <<>>, rec_datetime |-> <<>>, file_datetime |-> <<>>,
     annotations |-> <<>>,
     segments |-> <<>>, recordingchannelgroups |-> <<>>,
     analogsignals |-> <<>>, irregularlysampledsignals |-> <<>>,
     epochs |-> <<>>, events |-> <<>>, spiketrains |-> <<>>, units |-> <<>>,
     channel_indexes |-> <<>>, channel_names |-> <<>>, coordinates |-> <<>>,
     signal |-> <<>>, units_str |-> <<>>, times |-> <<>>, durations |-> <<>>,
     labels |-> <<>>, t_start |-> <<>>, t_stop |-> <<>>, waveforms |-> <<>>,
     left_sweep |-> <<>>, sampling_period |-> <<>>, lazy |-> FALSE,
     lazylists |-> <<>>]

\* type(neo_obj).__name__.lower()
Lower(cls) ==
    CASE cls = "Block" -> "block"
      [] cls = "Segment" -> "segment"
      [] cls = "RecordingChannelGroup" -> "recordingchannelgroup"
      [] cls = "AnalogSignal" -> "analogsignal"
      [] cls = "IrregularlySampledSignal" -> "irregularlysampledsignal"
      [] cls = "Epoch" -> "epoch"
      [] cls = "Event" -> "event"
      [] cls = "SpikeTrain" -> "spiketrain"
      [] cls = "Unit" -> "unit"
      [] OTHER -> cls

-----------------------------------------------------------------------------
(* neonix: path resolver, identity map, name mediator, metadata            *)

\* a variant of the map in which the units of a group are looked for among
\* its tags
_container_map_UnitsInTags ==
    [l \in {"segments", "analogsignals", "irregularlysampledsignals", "events",
            "epochs", "spiketrains", "recordingchannelgroups", "units"} |->
        CASE l = "segments" -> "groups"
          [] l \in {"analogsignals", "irregularlysampledsignals"} -> "data_arrays"
          [] l \in {"events", "epochs", "spiketrains", "units"} -> "multi_tags"
          [] OTHER -> "sources"]

_container_map ==
    [l \in {"segments", "analogsignals", "irregularlysampledsignals", "events",
            "epochs", "spiketrains", "recordingchannelgroups", "units"} |->
        CASE l = "segments" -> "groups"
          [] l \in {"analogsignals", "irregularlysampledsignals"} -> "data_arrays"
          [] l \in {"events", "epochs", "spiketrains"} -> "multi_tags"
          [] OTHER -> "sources"]

Found(id) == [err |-> "", id |-> id]
NotFound(e) == [err |-> e, id |-> 0]

\* NixIO._get_object_at.  A path of one part ("" or a bare word) has the
\* parent path "", which has one part again: the recursion never reaches the
\* root case and ends in Python's RecursionError.
RECURSIVE _get_object_at(_, _)
_get_object_at(o, path) ==
    LET lookup(id) == IF id = 0 THEN NotFound("KeyError") ELSE Found(id)
        \* parent_container[parts[-1]]
        member(parent_obj, label, name) ==
            IF parent_obj.err # "" THEN parent_obj
            ELSE IF ~(Len(label) = 1 /\ label[1] \in DOMAIN _container_map)
            THEN NotFound("KeyError")
            ELSE IF ~HasAttr(o, parent_obj.id, _container_map[label[1]])
            THEN NotFound("AttributeError")
            ELSE lookup(ByName(o, Collection(o, parent_obj.id,
                                             _container_map[label[1]]),
                               name))
        at(parts) ==
            IF Len(parts) = 2
            THEN lookup(ByName(o, ChildIds(o, 0, "block"), parts[2]))
            ELSE IF Len(parts) = 1 THEN NotFound("RecursionError")
            ELSE member(_get_object_at(o, join(DropLast(parts, 2), "/")),
                        parts[Len(parts) - 1], parts[Len(parts)])
    IN  at(split(path, "/"))

\* NixIO._get_mapped_object: the key is obj.id for a NIX object and id(obj)
\* for a Neo object
_get_mapped_object(st, key) ==
    IF key \in DOMAIN st.map THEN Found(st.map[key]) ELSE NotFound("KeyError")

PyKey(oid) == <<"py", oid>>
NixKey(id) == <<"nix", id>>

\* a variant of the loop that takes the first candidate unchecked
FreeName_Unchecked(nix_basename, suffix, container, idx) ==
    nix_basename \o <<"-">> \o Str(idx)

\* the while loop of _neo_attr_to_nix
RECURSIVE FreeName(_, _, _, _)
FreeName(nix_basename, suffix, container, idx) ==
    LET nix_name == nix_basename \o <<"-">> \o Str(idx)
    IN  IF (nix_name \o suffix) \in container
        THEN FreeName(nix_basename, suffix, container, idx + 1)
        ELSE nix_name

\* a variant of _neo_attr_to_nix that keeps the class name's capitals in the
\* type
_neo_attr_to_nix_Capitals(neo_obj, container) ==
    LET nix_basename == IF neo_obj.name # <<>> THEN neo_obj.name
                        ELSE <<"neo", ".", neo_obj.cls>>
        suffix == IF neo_obj.cls \in {"AnalogSignal", "IrregularlySampledSignal"}
                  THEN <<".", "0">> ELSE <<>>
        nix_name == IF (nix_basename \o suffix) \notin container
                    THEN nix_basename
                    ELSE FreeName(nix_basename, suffix, container, 1)
    IN  [name |-> nix_name,
         type |-> "neo." \o neo_obj.cls,
         definition |-> neo_obj.description,
         created_at |-> IF neo_obj.cls \in {"Block", "Segment"}
                        THEN neo_obj.rec_datetime ELSE <<>>,
         file_datetime |-> IF neo_obj.cls \in {"Block", "Segment"}
                           THEN neo_obj.file_datetime ELSE <<>>,
         file_origin |-> neo_obj.file_origin,
         annotations |-> neo_obj.annotations]

\* NixIO._neo_attr_to_nix; container is the set of names in the collection.
\* A key the code leaves out of the dict is <<>> here.
_neo_attr_to_nix(neo_obj, container) ==
    LET nix_basename == IF neo_obj.name # <<>> THEN neo_obj.name
                        ELSE <<"neo", ".", neo_obj.cls>>
        suffix == IF neo_obj.cls \in {"AnalogSignal", "IrregularlySampledSignal"}
                  THEN <<".", "0">> ELSE <<>>
        nix_name == IF (nix_basename \o suffix) \notin container
                    THEN nix_basename
                    ELSE FreeName(nix_basename, suffix, container, 1)
    IN  [name |-> nix_name,
         type |-> "neo." \o Lower(neo_obj.cls),
         definition |-> neo_obj.description,
         created_at |-> IF neo_obj.cls \in {"Block", "Segment"}
                        THEN neo_obj.rec_datetime ELSE <<>>,
         file_datetime |-> IF neo_obj.cls \in {"Block", "Segment"}
                           THEN neo_obj.file_datetime ELSE <<>>,
         file_origin |-> neo_obj.file_origin,
         annotations |-> neo_obj.annotations]

\* a variant of _get_or_init_metadata that makes every section at the file
\* root
_get_or_init_metadata_AtRoot(st, nix_obj, path) ==
    IF st.err # "" THEN st
    ELSE IF st.objs[nix_obj].metadata # 0 THEN st
    ELSE LET s1 == Create(st, [NixBlank EXCEPT !.kind = "section", !.parent = 0,
                                 !.name = st.objs[nix_obj].name,
                                 !.type = st.objs[nix_obj].type \o ".metadata"])
         IN  SetField(s1, nix_obj, "metadata", NewId(s1))

\* NixIO._get_or_init_metadata; the section is st'.objs[nix_obj].metadata
RECURSIVE _get_or_init_metadata(_, _, _)
_get_or_init_metadata(st, nix_obj, path) ==
    LET parent_parts == DropLast(split(path, "/"), 2)
        parent_path  == join(parent_parts, "/")
        sec(p) == [NixBlank EXCEPT !.kind = "section", !.parent = p,
                       !.name = st.objs[nix_obj].name,
                       !.type = st.objs[nix_obj].type \o ".metadata"]
        \* nix_obj.metadata = the section just created
        link(s) == SetField(s, nix_obj, "metadata", NewId(s))
        \* parent_metadata.create_section(...)
        under(s, parent) == link(Create(s, sec(s.objs[parent].metadata)))
    IN  IF st.err # "" THEN st
        ELSE IF st.objs[nix_obj].metadata # 0 THEN st
        ELSE IF Len(parent_parts) = 0 THEN link(Create(st, sec(0)))
        ELSE Only({
             IF r.err # "" THEN Raise(st, r.err)
             ELSE under(_get_or_init_metadata(st, r.id, parent_path), r.id)
             : r \in {_get_object_at(st.objs, parent_path)} })

-----------------------------------------------------------------------------
(* neonix: attribute / annotation codec (write direction)                  *)

\* A Python value: t is its kind ("quantity", "datetime", "str", "bytes",
\* "iter", "numpy", "num"), v what it holds (for "iter": its items).
PyVal(t, v) == [t |-> t, v |-> v]

\* a variant of _to_value that raises no warning
_to_value_Silent(v) ==
    CASE v.t \in {"quantity", "iter"} -> [none |-> TRUE, values |-> <<>>, warn |-> FALSE]
      [] OTHER -> [none |-> FALSE, values |-> <<v.v>>, warn |-> FALSE]

\* NixIO._to_value.  none: the method returns None; values: the nixio.Value
\* objects it returns otherwise; warn: it called warnings.warn.
\* Inside the loop the code tests `isinstance(v, Iterable)` on the sequence
\* itself, which is true of every sequence that got there.
_to_value(v) ==
    CASE v.t = "quantity" -> [none |-> TRUE, values |-> <<>>, warn |-> TRUE]
      [] v.t = "iter" ->
            IF Len(v.v) > 0
            THEN [none |-> TRUE, values |-> <<>>, warn |-> TRUE]
            ELSE [none |-> TRUE, values |-> <<>>, warn |-> FALSE]
      [] OTHER -> [none |-> FALSE, values |-> <<v.v>>, warn |-> FALSE]

Warn(st, w) == IF st.err # "" \/ ~w THEN st ELSE [st EXCEPT !.warn = Append(@, "warning")]

\* metadata.create_property(k, cls._to_value(v))
PutProperty(st, sec, k, v) ==
    create_property(Warn(st, _to_value(v).warn), sec, k, _to_value(v).values)

\* NixIO._add_annotations; annotations is a sequence of <<key, value>>
RECURSIVE _add_annotations(_, _, _)
_add_annotations(st, annotations, metadata) ==
    IF st.err # "" \/ annotations = <<>> THEN st
    ELSE _add_annotations(
             PutProperty(st, metadata, Head(annotations)[1], Head(annotations)[2]),
             Tail(annotations), metadata)

\* NixIO._write_attr_annotations: one step per `if ... in attr`
_write_attr_annotations(st, nix_object, attr, object_path) ==
    LET \* metadata[k] = v, on the state that holds the section
        put(s, k, v) == PutProperty(s, s.objs[nix_object].metadata, k, v)
    IN  Only({
        Only({
        Only({
        IF attr.annotations # <<>>
        THEN Only({ _add_annotations(m, attr.annotations,
                                              m.objs[nix_object].metadata)
             : m \in {_get_or_init_metadata(s3, nix_object, object_path)} })
        ELSE s3
        : s3 \in {IF attr.file_origin # <<>>
             THEN Only({ put(m, "file_origin",
                                      PyVal("str", attr.file_origin[1]))
                  : m \in {_get_or_init_metadata(s2, nix_object, object_path)} })
             ELSE s2} })
        : s2 \in {IF attr.file_datetime # <<>>
             THEN Only({ put(m, "file_datetime",
                                      PyVal("datetime", attr.file_datetime[1]))
                  : m \in {_get_or_init_metadata(s1, nix_object, object_path)} })
             ELSE s1} })
        : s1 \in {IF attr.created_at # <<>>
             THEN SetField(st, nix_object, "created_at", attr.created_at)
             ELSE st} })

\* "/" + parent_path.split("/")[1]
BlockPathOf(path) == <<"/">> \o split(path, "/")[2]

\* NixIO._get_contained_signals
_get_contained_signals(o, obj) ==
    SelectSeq(o[obj].data_arrays,
              LAMBDA da : o[da].type \in {"neo.analogsignal",
                                          "neo.irregularlysampledsignal"})

-----------------------------------------------------------------------------
(* neonix: the write methods                                               *)

Resolve(st, path) ==
    IF st.err # "" THEN NotFound(st.err)
    ELSE _get_object_at(st.objs, path)

\* the loop `for idx, sig in enumerate(signal.transpose())` of
\* write_analogsignal and write_irregularlysampledsignal; acc holds the
\* state and the list nix_data_arrays
RECURSIVE WriteChannels(_, _, _, _, _, _, _, _)
WriteChannels(acc, sig, idx, attr, parent_block, parent_group, section, timedim) ==
    LET \* parent_group.data_arrays.append(nix_data_array), its metadata,
        \* nix_data_arrays.append(nix_data_array)
        linked(s, da) ==
            [st  |-> SetField(AppendLinks(s, parent_group, "data_arrays", <<da>>),
                              da, "metadata", section),
             ids |-> IF s.err = "" THEN Append(acc.ids, da) ELSE acc.ids]
        created(s) == linked(s, NewId(s))
    IN  IF acc.st.err # "" \/ idx >= Len(sig.signal) THEN acc
        ELSE WriteChannels(
                 created(Create(acc.st,
                     [NixBlank EXCEPT !.kind = "data_array",
                        !.parent = parent_block,
                        !.name = attr.name \o <<".">> \o Str(idx),
                        !.type = attr.type,
                        !.data = <<sig.signal[idx + 1]>>,
                        !.definition = attr.definition,
                        !.unit = sig.units_str,
                        !.dims = <<timedim,
                                   Dim("set", <<>>, <<>>, <<>>, <<>>, <<>>)>>])),
                 sig, idx + 1, attr, parent_block, parent_group, section, timedim)

\* the common body of write_analogsignal and write_irregularlysampledsignal,
\* which differ in the time dimension they append
WriteSignal(st, sig, parent_path, timedim) ==
    Only({
    Only({
    IF pg.err # "" THEN Raise(st, pg.err)
    ELSE IF pb.err # "" THEN Raise(st, pb.err)
    ELSE
    Only({
    Only({
    \* metadata = parent_metadata.create_section(name, type + ".metadata")
    Only({
    Only({
    Only({
    Only({
    \* self._object_map[id(signal)] = nix_data_arrays
    MapPut(w.st, PyKey(sig.oid), w.ids)
    : w \in {WriteChannels([st |-> s4, ids |-> <<>>], sig, 0, attr, pb.id, pg.id,
                       NewId(s2), timedim)} })
    : s4 \in {IF sig.annotations # <<>>
         THEN _add_annotations(s3, sig.annotations, NewId(s2))
         ELSE s3} })
    : s3 \in {IF attr.file_origin # <<>>
         THEN PutProperty(s2, NewId(s2), "file_origin",
                          PyVal("str", attr.file_origin[1]))
         ELSE s2} })
    : s2 \in {Create(s1, [NixBlank EXCEPT !.kind = "section",
                       !.parent = s1.objs[pg.id].metadata,
                       !.name = attr.name,
                       !.type = attr.type \o ".metadata"])} })
    : attr \in {_neo_attr_to_nix(sig, NamesOf(s1.objs,
                                       ChildIds(s1.objs, pb.id, "data_array")))} })
    : s1 \in {_get_or_init_metadata(st, pg.id, parent_path)} })
    : pb \in {Resolve(st, BlockPathOf(parent_path))} })
    : pg \in {Resolve(st, parent_path)} })

\* a variant of write_analogsignal whose channel loop stops one short
write_analogsignal_OneShort(st, anasig, parent_path) ==
    WriteSignal(st, [anasig EXCEPT !.signal = DropLast(@, 1)], parent_path,
                Dim("sample", "time", <<"s">>, anasig.t_start,
                    anasig.sampling_period, <<>>))

\* NixIO.write_analogsignal
write_analogsignal(st, anasig, parent_path) ==
    WriteSignal(st, anasig, parent_path,
                Dim("sample", "time", <<"s">>, anasig.t_start,
                    anasig.sampling_period, <<>>))

\* NixIO.write_irregularlysampledsignal
write_irregularlysampledsignal(st, irsig, parent_path) ==
    WriteSignal(st, irsig, parent_path,
                Dim("range", "time", <<"s">>, <<>>, <<>>, irsig.times))

\* the part write_epoch, write_event and write_spiketrain share: the times
\* array, for an epoch the durations array, the MultiTag and its link from
\* the Group.  The result is the state; the MultiTag is the last object.
WriteTag(st, obj, parent_path, attr, parent_block, parent_group) ==
    LET array(suffix, data) ==
            [NixBlank EXCEPT !.kind = "data_array", !.parent = parent_block,
                             !.name = attr.name \o <<".", suffix>>,
                             !.type = attr.type \o "." \o suffix,
                             !.data = data, !.unit = <<"s">>]
        labelled(s, times_da) ==
            IF obj.cls \in {"Epoch", "Event"}
            THEN SetField(s, times_da, "dims",
                     <<[Dim("set", <<>>, <<>>, <<>>, <<>>, <<>>)
                           EXCEPT !.labels = obj.labels]>>)
            ELSE s
        \* parent_group.multi_tags.append(nix_multi_tag)
        tagged(s, times_da) ==
            AppendLinks(labelled(s, times_da), parent_group, "multi_tags",
                        <<NewId(s)>>)
        tag(s, times_da, durations_da) ==
            tagged(Create(s, [NixBlank EXCEPT !.kind = "multi_tag",
                                !.parent = parent_block, !.name = attr.name,
                                !.type = attr.type, !.positions = times_da,
                                !.extents = durations_da,
                                !.definition = attr.definition]),
                   times_da)
        with_durations(s, times_da) == tag(s, times_da, NewId(s))
        with_times(s, times_da) ==
            IF obj.cls = "Epoch"
            THEN with_durations(Create(s, array("durations", obj.durations)),
                                times_da)
            ELSE tag(s, times_da, 0)
        created(s) == with_times(s, NewId(s))
    IN  created(Create(st, array("times", obj.times)))

\* NixIO.write_epoch and NixIO.write_event (label is "epochs" or "events")
WriteEpochEvent(st, ev, parent_path, label) ==
    Only({
    Only({
    IF pg.err # "" THEN Raise(st, pg.err)
    ELSE IF pb.err # "" THEN Raise(st, pb.err)
    ELSE
    Only({
    \* s1: the arrays and the MultiTag exist; nix_multi_tag is NewId(s1)
    Only({
    Only({
    \* nix_multi_tag.references.extend(self._get_contained_signals(...))
    AppendLinks(s2, NewId(s1), "references",
                _get_contained_signals(s2.objs, pg.id))
    : s2 \in {_write_attr_annotations(
             MapPut(s1, PyKey(ev.oid), NewId(s1)), NewId(s1), attr,
             parent_path \o <<"/", label, "/">> \o attr.name)} })
    : s1 \in {WriteTag(st, ev, parent_path, attr, pb.id, pg.id)} })
    : attr \in {_neo_attr_to_nix(ev, NamesOf(st.objs,
                                      ChildIds(st.objs, pb.id, "multi_tag")))} })
    : pb \in {Resolve(st, BlockPathOf(parent_path))} })
    : pg \in {Resolve(st, parent_path)} })

write_epoch(st, ep, parent_path) == WriteEpochEvent(st, ep, parent_path, "epochs")

write_event(st, ev, parent_path) == WriteEpochEvent(st, ev, parent_path, "events")

\* NixIO.write_spiketrain
write_spiketrain(st, sptr, parent_path) ==
    Only({
    Only({
    IF pg.err # "" THEN Raise(st, pg.err)
    ELSE IF pb.err # "" THEN Raise(st, pb.err)
    ELSE
    Only({
    LET object_path == parent_path \o <<"/", "spiketrains", "/">> \o attr.name
        waveforms_name == attr.name \o <<".", "waveforms">>
    IN
    \* s1: the times array and the MultiTag exist; nix_multi_tag is NewId(s1)
    Only({
    Only({
    Only({
    Only({
    Only({
    IF sptr.waveforms = <<>> THEN s5
    ELSE
    \* s6: the waveforms array exists; waveforms_da is NewId(s6)
    Only({
    \* nix_multi_tag.create_feature(waveforms_da, ...) and the metadata of
    \* the waveforms
    Only({
    \* if sptr.left_sweep: a left_sweep of zero is false as well
    IF sptr.left_sweep # <<>> /\ sptr.left_sweep[1] # 0
    THEN PutProperty(s7, s7.objs[NewId(s6)].metadata, "left_sweep",
                     PyVal("num", sptr.left_sweep[1]))
    ELSE s7
    : s7 \in {_get_or_init_metadata(
             AppendLinks(s6, NewId(s1), "features", <<NewId(s6)>>),
             NewId(s6),
             object_path \o <<"/", "waveforms", "/">> \o waveforms_name)} })
    : s6 \in {Create(s5, [NixBlank EXCEPT !.kind = "data_array",
                       !.parent = pb.id,
                       !.name = waveforms_name,
                       !.type = "neo.waveforms",
                       !.data = sptr.waveforms,
                       !.unit = <<"mV">>,
                       !.dims = <<Dim("set", <<>>, <<>>, <<>>, <<>>, <<>>),
                                  Dim("set", <<>>, <<>>, <<>>, <<>>, <<>>),
                                  Dim("sample", "time", <<"s">>, <<>>,
                                      sptr.sampling_period, <<>>)>>])} })
    : s5 \in {PutProperty(s4, s3.objs[NewId(s1)].metadata, "t_stop",
                     PyVal("num", sptr.t_stop[1]))} })
    : s4 \in {IF sptr.t_start # <<>> /\ sptr.t_start[1] # 0
         THEN PutProperty(s3, s3.objs[NewId(s1)].metadata, "t_start",
                          PyVal("num", sptr.t_start[1]))
         ELSE s3} })
    : s3 \in {_write_attr_annotations(s2, NewId(s1), attr, object_path)} })
    : s2 \in {_get_or_init_metadata(MapPut(s1, PyKey(sptr.oid), NewId(s1)),
                               NewId(s1), object_path)} })
    : s1 \in {WriteTag(st, sptr, parent_path, attr, pb.id, pg.id)} })
    : attr \in {_neo_attr_to_nix(sptr, NamesOf(st.objs,
                                        ChildIds(st.objs, pb.id, "multi_tag")))} })
    : pb \in {Resolve(st, BlockPathOf(parent_path))} })
    : pg \in {Resolve(st, parent_path)} })

\* a variant of the lookup that finds no object at all
AllMapped_None(st, oids) == oids = <<>>

\* the loop of write_unit over self._get_mapped_objects(ut.spiketrains):
\* the list is mapped first, so a missing entry raises before any append
AllMapped(st, oids) == \A i \in 1..Len(oids) : PyKey(oids[i]) \in DOMAIN st.map

\* a variant of the loop that appends the Unit's Source only
RECURSIVE AppendSourcesToTags_UnitOnly(_, _, _, _)
AppendSourcesToTags_UnitOnly(st, oids, parent_source, nix_source) ==
    IF st.err # "" \/ oids = <<>> THEN st
    ELSE AppendSourcesToTags_UnitOnly(
             AppendLinks(st, st.map[PyKey(Head(oids))], "sources", <<nix_source>>),
             Tail(oids), parent_source, nix_source)

RECURSIVE AppendSourcesToTags(_, _, _, _)
AppendSourcesToTags(st, oids, parent_source, nix_source) ==
    IF st.err # "" \/ oids = <<>> THEN st
    ELSE AppendSourcesToTags(
             AppendLinks(st, st.map[PyKey(Head(oids))], "sources",
                         <<parent_source, nix_source>>),
             Tail(oids), parent_source, nix_source)

\* NixIO.write_unit
write_unit(st, ut, parent_path) ==
    Only({
    IF ps.err # "" THEN Raise(st, ps.err)
    ELSE
    Only({
    \* s1: nix_source is NewId(s1)
    Only({
    Only({
    IF s2.err # "" THEN s2
    ELSE IF ~AllMapped(s2, ut.spiketrains) THEN Raise(s2, "KeyError")
    ELSE AppendSourcesToTags(s2, ut.spiketrains, ps.id, NewId(s1))
    : s2 \in {_write_attr_annotations(
             MapPut(s1, PyKey(ut.oid), NewId(s1)), NewId(s1), attr,
             parent_path \o <<"/", "units", "/">> \o attr.name)} })
    : s1 \in {Create(st, [NixBlank EXCEPT !.kind = "source",
                       !.parent = ps.id, !.name = attr.name,
                       !.type = attr.type,
                       !.definition = attr.definition])} })
    : attr \in {_neo_attr_to_nix(ut, NamesOf(st.objs,
                                      ChildIds(st.objs, ps.id, "source")))} })
    : ps \in {Resolve(st, parent_path)} })

RECURSIVE write_units(_, _, _)
write_units(st, uts, parent_path) ==
    IF st.err # "" \/ uts = <<>> THEN st
    ELSE write_units(write_unit(st, Head(uts), parent_path), Tail(uts), parent_path)

\* the loop of write_recordingchannelgroup over rcg.channel_indexes: one
\* child Source per channel, created under the name given in channel_names
\* or a generated one, without consulting the name mediator
RECURSIVE WriteChannelSources(_, _, _, _, _, _, _)
WriteChannelSources(st, rcg, idx, nix_source, object_path, attr, parent_block) ==
    LET nix_chan_name ==
            IF Len(rcg.channel_names) # 0 THEN rcg.channel_names[idx + 1]
            ELSE st.objs[parent_block].name
                     \o <<".", "RecordingChannel">> \o Str(idx)
    IN  IF st.err # "" \/ idx >= Len(rcg.channel_indexes) THEN st
        ELSE IF Len(rcg.channel_names) # 0 /\ idx >= Len(rcg.channel_names)
        THEN Raise(st, "IndexError")
        ELSE IF rcg.coordinates # <<>> /\ idx >= Len(rcg.coordinates)
        THEN Raise(st, "IndexError")
        ELSE
        \* s1: nix_chan is NewId(s1)
        Only({
        \* s2: chan_metadata is the metadata of nix_chan
        Only({
        Only({
        Only({
        Only({
        WriteChannelSources(s5, rcg, idx + 1, nix_source, object_path, attr,
                            parent_block)
        : s5 \in {IF rcg.coordinates # <<>>
             THEN create_property(
                      create_property(s4, s2.objs[NewId(s1)].metadata,
                                      "coordinates", rcg.coordinates[idx + 1]),
                      s2.objs[NewId(s1)].metadata, "coordinates.units",
                      <<"cm">>)
             ELSE s4} })
        : s4 \in {IF attr.file_origin # <<>>
             THEN PutProperty(s3, s2.objs[NewId(s1)].metadata, "file_origin",
                              PyVal("str", attr.file_origin[1]))
             ELSE s3} })
        : s3 \in {PutProperty(s2, s2.objs[NewId(s1)].metadata, "index",
                         PyVal("num", rcg.channel_indexes[idx + 1]))} })
        : s2 \in {_get_or_init_metadata(s1, NewId(s1),
                 object_path \o <<"/", "recordingchannels", "/">>
                     \o nix_chan_name)} })
        : s1 \in {Create(st, [NixBlank EXCEPT !.kind = "source",
                           !.parent = nix_source,
                           !.name = nix_chan_name,
                           !.type = "neo.recordingchannel",
                           !.definition = st.objs[nix_source].definition])} })

\* a variant of the loop that stops after the first Array
AppendSourceToArrays_FirstOnly(st, das, nix_source) ==
    IF st.err # "" \/ das = <<>> THEN st
    ELSE AppendLinks(st, Head(das), "sources", <<nix_source>>)

\* the loops `for da in nix_asigs: da.sources.append(nix_source)`
RECURSIVE AppendSourceToArrays(_, _, _)
AppendSourceToArrays(st, das, nix_source) ==
    IF st.err # "" \/ das = <<>> THEN st
    ELSE AppendSourceToArrays(AppendLinks(st, Head(das), "sources", <<nix_source>>),
                              Tail(das), nix_source)

RECURSIVE AppendSourceToSignals(_, _, _)
AppendSourceToSignals(st, oids, nix_source) ==
    IF st.err # "" \/ oids = <<>> THEN st
    ELSE AppendSourceToSignals(
             AppendSourceToArrays(st, st.map[PyKey(Head(oids))], nix_source),
             Tail(oids), nix_source)

\* NixIO.write_recordingchannelgroup
write_recordingchannelgroup(st, rcg, parent_path) ==
    Only({
    IF pb.err # "" THEN Raise(st, pb.err)
    ELSE
    Only({
    LET object_path ==
            parent_path \o <<"/", "recordingchannelgroups", "/">> \o attr.name
    IN
    \* s1: nix_source is NewId(s1)
    Only({
    Only({
    Only({
    Only({
    \* the signals the group refers to get its Source
    Only({
    IF s5.err = "" /\ ~AllMapped(s5, rcg.irregularlysampledsignals)
    THEN Raise(s5, "KeyError")
    ELSE AppendSourceToSignals(s5, rcg.irregularlysampledsignals,
                               NewId(s1))
    : s5 \in {IF s4.err = "" /\ ~AllMapped(s4, rcg.analogsignals)
         THEN Raise(s4, "KeyError")
         ELSE AppendSourceToSignals(s4, rcg.analogsignals, NewId(s1))} })
    : s4 \in {write_units(s3, rcg.units, object_path)} })
    : s3 \in {WriteChannelSources(s2, rcg, 0, NewId(s1), object_path, attr, pb.id)} })
    : s2 \in {_write_attr_annotations(
             MapPut(s1, PyKey(rcg.oid), NewId(s1)), NewId(s1), attr,
             object_path)} })
    : s1 \in {Create(st, [NixBlank EXCEPT !.kind = "source",
                       !.parent = pb.id, !.name = attr.name,
                       !.type = attr.type,
                       !.definition = attr.definition])} })
    : attr \in {_neo_attr_to_nix(rcg, NamesOf(st.objs,
                                       ChildIds(st.objs, pb.id, "source")))} })
    : pb \in {Resolve(st, parent_path)} })

\* the members of one child list of a Neo object, each with the name of the
\* list it is in
Listed(children, which) ==
    [i \in 1..Len(children) |-> [which |-> which, obj |-> children[i]]]

\* the loops of write_block and write_segment over the child lists, one list
\* after the other
RECURSIVE WriteEach(_, _, _)
RECURSIVE write_segment(_, _, _)
WriteEach(st, children, parent_path) ==
    IF st.err # "" \/ children = <<>> THEN st
    ELSE WriteEach(
             CASE Head(children).which = "segments" ->
                      write_segment(st, Head(children).obj, parent_path)
               [] Head(children).which = "analogsignals" ->
                      write_analogsignal(st, Head(children).obj, parent_path)
               [] Head(children).which = "irregularlysampledsignals" ->
                      write_irregularlysampledsignal(st, Head(children).obj,
                                                     parent_path)
               [] Head(children).which = "epochs" ->
                      write_epoch(st, Head(children).obj, parent_path)
               [] Head(children).which = "events" ->
                      write_event(st, Head(children).obj, parent_path)
               [] Head(children).which = "spiketrains" ->
                      write_spiketrain(st, Head(children).obj, parent_path)
               [] OTHER ->
                      write_recordingchannelgroup(st, Head(children).obj,
                                                  parent_path),
             Tail(children), parent_path)

\* NixIO.write_segment
write_segment(st, segment, parent_path) ==
    Only({
    IF pb.err # "" THEN Raise(st, pb.err)
    ELSE
    Only({
    LET object_path == parent_path \o <<"/", "segments", "/">> \o attr.name
    IN
    \* s1: nix_group is NewId(s1)
    Only({
    WriteEach(
        _write_attr_annotations(
            MapPut(s1, PyKey(segment.oid), NewId(s1)), NewId(s1), attr,
            object_path),
        Listed(segment.analogsignals, "analogsignals")
            \o Listed(segment.irregularlysampledsignals,
                      "irregularlysampledsignals")
            \o Listed(segment.epochs, "epochs")
            \o Listed(segment.events, "events")
            \o Listed(segment.spiketrains, "spiketrains"),
        object_path)
    : s1 \in {Create(st, [NixBlank EXCEPT !.kind = "group",
                       !.parent = pb.id, !.name = attr.name,
                       !.type = attr.type,
                       !.definition = attr.definition])} })
    : attr \in {_neo_attr_to_nix(segment, NamesOf(st.objs,
                                           ChildIds(st.objs, pb.id, "group")))} })
    : pb \in {Resolve(st, parent_path)} })

\* a variant of write_block that writes the ChannelGroups before the
\* Segments
write_block_GroupsFirst(st, neo_block) ==
    Only({
    Only({
    WriteEach(
        _write_attr_annotations(
            MapPut(s1, PyKey(neo_block.oid), NewId(s1)), NewId(s1), attr,
            <<"/">> \o attr.name),
        Listed(neo_block.recordingchannelgroups, "recordingchannelgroups")
            \o Listed(neo_block.segments, "segments"),
        <<"/">> \o attr.name)
    : s1 \in {Create(st, [NixBlank EXCEPT !.kind = "block", !.parent = 0,
                       !.name = attr.name, !.type = attr.type,
                       !.definition = attr.definition])} })
    : attr \in {_neo_attr_to_nix(neo_block,
                          NamesOf(st.objs, ChildIds(st.objs, 0, "block")))} })

\* NixIO.write_block; the returned nix_block is the last block of the file
write_block(st, neo_block) ==
    Only({
    \* s1: nix_block is NewId(s1)
    Only({
    WriteEach(
        _write_attr_annotations(
            MapPut(s1, PyKey(neo_block.oid), NewId(s1)), NewId(s1), attr,
            <<"/">> \o attr.name),
        Listed(neo_block.segments, "segments")
            \o Listed(neo_block.recordingchannelgroups,
                      "recordingchannelgroups"),
        <<"/">> \o attr.name)
    : s1 \in {Create(st, [NixBlank EXCEPT !.kind = "block", !.parent = 0,
                       !.name = attr.name, !.type = attr.type,
                       !.definition = attr.definition])} })
    : attr \in {_neo_attr_to_nix(neo_block,
                          NamesOf(st.objs, ChildIds(st.objs, 0, "block")))} })

-----------------------------------------------------------------------------
(* neonix: the read methods                                                *)

\* The result of a read method: the state and the value returned (the
\* index in heap of the Neo object built, 0 for None).
Out(st, val) == [st |-> st, val |-> IF st.err # "" THEN 0 ELSE val]

\* neo_obj = Class(**attrs): a new object on the heap
NewNeo(st, rec) == IF st.err # "" THEN st ELSE [st EXCEPT !.heap = Append(@, rec)]

\* NixIO._nix_attr_to_neo: name, description and one entry per property of
\* the metadata section (a property with one value decodes to a scalar)
_nix_attr_to_neo(o, nix_obj) ==
    [NeoBlank EXCEPT !.name = o[nix_obj].name,
                     !.description = o[nix_obj].definition,
                     !.rec_datetime = IF o[nix_obj].kind \in {"block", "group"}
                                      THEN o[nix_obj].created_at ELSE <<>>,
                     !.annotations = IF o[nix_obj].metadata # 0
                                     THEN [i \in 1..Len(o[o[nix_obj].metadata].props) |->
                                             <<o[o[nix_obj].metadata].props[i].name,
                                               o[o[nix_obj].metadata].props[i].values>>]
                                     ELSE <<>>]

\* NixIO._get_time_dimension: the index of the first dimension labelled
\* "time", 0 for None
_get_time_dimension(o, obj) ==
    IF \E i \in 1..Len(o[obj].dims) : o[obj].dims[i].label = "time"
    THEN CHOOSE i \in 1..Len(o[obj].dims) :
             o[obj].dims[i].label = "time"
             /\ \A k \in 1..(i - 1) : o[obj].dims[k].label # "time"
    ELSE 0

\* self._object_map[da.id] = neo_signal for every da of the group
RECURSIVE MapPutAll(_, _, _)
MapPutAll(st, ids, value) ==
    IF st.err # "" \/ ids = <<>> THEN st
    ELSE MapPutAll(MapPut(st, NixKey(Head(ids)), value), Tail(ids), value)

\* self._object_map[nix_obj.id] = neo_obj; return neo_obj, for the object
\* built last
Mapped(st, nix_obj) ==
    Out(MapPut(st, NixKey(nix_obj), Len(st.heap)), Len(st.heap))

\* NixIO._signal_da_to_neo
_signal_da_to_neo(st, nix_da_group_in, lazy) ==
    LET o == st.objs
        \* self._object_map[da.id] = neo_signal for every da; return
        mapped(s, nix_da_group) ==
            Out(MapPutAll(s, nix_da_group, Len(s.heap)), Len(s.heap))
        convert(nix_da_group) ==
            LET first == nix_da_group[1]
                neo_type == o[first].type
                signaldata ==
                    IF lazy THEN <<>>
                    ELSE [i \in 1..Len(nix_da_group) |-> o[nix_da_group[i]].data[1]]
                td == _get_time_dimension(o, first)
                timedim == o[first].dims[td]
                regular == neo_type = "neo.analogsignal"
                           \/ (td # 0 /\ timedim.dtype = "sample")
                irregular == neo_type = "neo.irregularlysampledsignal"
                             \/ (td # 0 /\ timedim.dtype = "range")
                base == [_nix_attr_to_neo(o, first) EXCEPT
                            !.name = o[o[first].metadata].name,
                            !.signal = signaldata, !.units_str = o[first].unit,
                            !.lazy = lazy]
            IN  IF st.err # "" THEN Out(st, 0)
                ELSE IF o[first].metadata = 0 THEN Out(Raise(st, "AttributeError"), 0)
                ELSE IF (regular \/ irregular) /\ td = 0
                THEN Out(Raise(st, "AttributeError"), 0)
                ELSE IF ~regular /\ ~irregular THEN Out(st, 0)
                ELSE IF regular
                THEN mapped(NewNeo(st,
                         [base EXCEPT !.cls = "AnalogSignal",
                             !.sampling_period =
                                 IF lazy THEN <<0>> ELSE timedim.sampling_interval,
                             !.t_start = IF lazy THEN <<0>> ELSE timedim.offset]),
                         nix_da_group)
                ELSE mapped(NewNeo(st,
                         [base EXCEPT !.cls = "IrregularlySampledSignal",
                             !.times = IF lazy THEN <<>> ELSE timedim.ticks]),
                         nix_da_group)
        ids(sorted) == [i \in 1..Len(sorted) |-> sorted[i][2]]
    IN  convert(ids(SortedByName([i \in 1..Len(nix_da_group_in) |->
                        <<o[nix_da_group_in[i]].name, nix_da_group_in[i]>>])))

\* the loop of read_signal over itertools.count(): the arrays
\* <group>.0, <group>.1, ... of the container, up to the first missing one
RECURSIVE SignalGroup(_, _, _, _)
SignalGroup(o, parent_container, signal_group_name, idx) ==
    LET da == ByName(o, parent_container, signal_group_name \o <<".">> \o Str(idx))
    IN  IF da = 0 THEN <<>>
        ELSE <<da>> \o SignalGroup(o, parent_container, signal_group_name, idx + 1)

\* if lazy: self._lazy_loaded.append(path); return neo_obj
Loaded(r, path, lazy) ==
    IF lazy /\ r.st.err = ""
    THEN Out([r.st EXCEPT !.lazy = Append(@, path)], r.val)
    ELSE r

\* a variant of read_signal without the assertion on the sections
read_signal_NoAssert(st, path, lazy) ==
    Only({
    Only({
    IF st.err # "" THEN Out(st, 0)
    ELSE IF pg.err # "" THEN Out(Raise(st, pg.err), 0)
    ELSE IF ~HasAttr(st.objs, pg.id, "data_arrays")
    THEN Out(Raise(st, "AttributeError"), 0)
    ELSE
    Only({
    IF nix_data_arrays = <<>> THEN Out(Raise(st, "IndexError"), 0)
    ELSE Loaded(_signal_da_to_neo(st, nix_data_arrays, lazy), path, lazy)
    : nix_data_arrays \in {SignalGroup(st.objs, Collection(st.objs, pg.id, "data_arrays"),
                     parts[Len(parts)], 0)} })
    : pg \in {Resolve(st, join(DropLast(parts, 2), "/"))} })
    : parts \in {split(path, "/")} })

\* NixIO.read_signal
read_signal(st, path, lazy) ==
    Only({
    Only({
    IF st.err # "" THEN Out(st, 0)
    ELSE IF pg.err # "" THEN Out(Raise(st, pg.err), 0)
    ELSE IF ~HasAttr(st.objs, pg.id, "data_arrays")
    THEN Out(Raise(st, "AttributeError"), 0)
    ELSE
    Only({
    IF nix_data_arrays = <<>> THEN Out(Raise(st, "IndexError"), 0)
    ELSE IF \E i \in 1..Len(nix_data_arrays) :
                st.objs[nix_data_arrays[i]].metadata
                    # st.objs[nix_data_arrays[1]].metadata
    THEN Out(Raise(st, "AssertionError"), 0)
    ELSE Loaded(_signal_da_to_neo(st, nix_data_arrays, lazy), path, lazy)
    : nix_data_arrays \in {SignalGroup(st.objs, Collection(st.objs, pg.id, "data_arrays"),
                     parts[Len(parts)], 0)} })
    : pg \in {Resolve(st, join(DropLast(parts, 2), "/"))} })
    : parts \in {split(path, "/")} })

\* setattr(neo_obj, field, value) on an object of the heap
HeapSet(st, idx, fld, val) ==
    IF st.err # "" THEN st
    ELSE [st EXCEPT !.heap[idx] = [@ EXCEPT ![fld] = val]]

\* the properties of the metadata section of nix_obj (none without section)
PropsOf(o, nix_obj) ==
    IF o[nix_obj].metadata = 0 THEN <<>> ELSE o[o[nix_obj].metadata].props

HasProp(o, nix_obj, name) ==
    \E i \in 1..Len(PropsOf(o, nix_obj)) : PropsOf(o, nix_obj)[i].name = name

PropValues(o, nix_obj, name) ==
    PropsOf(o, nix_obj)[CHOOSE i \in 1..Len(PropsOf(o, nix_obj)) :
                            PropsOf(o, nix_obj)[i].name = name].values

\* NixIO._block_to_neo
_block_to_neo(st, nix_block) ==
    Mapped(NewNeo(st, [_nix_attr_to_neo(st.objs, nix_block) EXCEPT !.cls = "Block"]),
           nix_block)

\* NixIO._group_to_neo
_group_to_neo(st, nix_group) ==
    Mapped(NewNeo(st, [_nix_attr_to_neo(st.objs, nix_group) EXCEPT !.cls = "Segment"]),
           nix_group)

\* NixIO._source_unit_to_neo
_source_unit_to_neo(st, nix_unit) ==
    Mapped(NewNeo(st, [_nix_attr_to_neo(st.objs, nix_unit) EXCEPT !.cls = "Unit"]),
           nix_unit)

\* list(self._source_unit_to_neo(nixut) for nixut in nix_units)
RECURSIVE UnitsToNeo(_, _)
UnitsToNeo(st, nix_units) ==
    LET cons(r, rest) == [st |-> rest.st, vals |-> <<r.val>> \o rest.vals]
        then(r) == cons(r, UnitsToNeo(r.st, Tail(nix_units)))
    IN  IF st.err # "" \/ nix_units = <<>> THEN [st |-> st, vals |-> <<>>]
        ELSE then(_source_unit_to_neo(st, Head(nix_units)))

\* NixIO._source_rcg_to_neo
_source_rcg_to_neo(st, nix_source) ==
    LET o == st.objs
        sources == ChildIds(o, nix_source, "source")
        rec_channels == SelectSeq(sources,
                            LAMBDA c : o[c].type = "neo.recordingchannel")
        nix_units == SelectSeq(sources, LAMBDA c : o[c].type = "neo.unit")
        with_coordinates == HasProp(o, rec_channels[1], "coordinates")
        rcg == [_nix_attr_to_neo(o, nix_source) EXCEPT
                   !.cls = "RecordingChannelGroup",
                   !.channel_names = [i \in 1..Len(rec_channels) |->
                                         o[rec_channels[i]].name],
                   !.channel_indexes = [i \in 1..Len(rec_channels) |->
                       PropValues(o, rec_channels[i], "index")[1]],
                   !.coordinates =
                       IF with_coordinates
                       THEN [i \in 1..Len(rec_channels) |->
                               PropValues(o, rec_channels[i], "coordinates")]
                       ELSE <<>>]
        \* rcg.units = neo_units
        with_units(us, idx) == Out(HeapSet(us.st, idx, "units", us.vals), idx)
        built(s) ==
            with_units(UnitsToNeo(MapPut(s, NixKey(nix_source), Len(s.heap)),
                                  nix_units),
                       Len(s.heap))
    IN  IF st.err # "" THEN Out(st, 0)
        ELSE IF \E i \in 1..Len(rec_channels) : ~HasProp(o, rec_channels[i], "index")
        THEN Out(Raise(st, "KeyError"), 0)
        ELSE IF rec_channels = <<>> THEN Out(Raise(st, "IndexError"), 0)
        ELSE IF with_coordinates
                /\ (~HasProp(o, rec_channels[1], "coordinates.units")
                    \/ \E i \in 1..Len(rec_channels) :
                          ~HasProp(o, rec_channels[i], "coordinates"))
        THEN Out(Raise(st, "KeyError"), 0)
        ELSE built(NewNeo(st, rcg))

\* NixIO._mtag_eest_to_neo
_mtag_eest_to_neo(st, nix_mtag, lazy) ==
    LET o == st.objs
        neo_type == o[nix_mtag].type
        positions == o[nix_mtag].positions
        extents == o[nix_mtag].extents
        base == [_nix_attr_to_neo(o, nix_mtag) EXCEPT
                    !.times = IF lazy THEN <<>> ELSE o[positions].data,
                    !.units_str = o[positions].unit, !.lazy = lazy]
        epoch == [base EXCEPT !.cls = "Epoch",
                     !.durations = IF lazy THEN <<>> ELSE o[extents].data,
                     !.labels = IF lazy THEN <<>> ELSE o[positions].dims[1].labels]
        event == [base EXCEPT !.cls = "Event",
                     !.labels = IF lazy THEN <<>> ELSE o[positions].dims[1].labels]
        wfda == o[nix_mtag].features[1]
        wftime == _get_time_dimension(o, wfda)
        train == [base EXCEPT !.cls = "SpikeTrain",
                     !.t_start = IF HasProp(o, nix_mtag, "t_start")
                                 THEN <<PropValues(o, nix_mtag, "t_start")[1]>>
                                 ELSE <<>>,
                     !.t_stop = <<PropValues(o, nix_mtag, "t_stop")[1]>>]
        wftrain == [train EXCEPT
                     !.waveforms = IF lazy THEN <<>> ELSE o[wfda].data,
                     !.sampling_period =
                         IF lazy THEN <<0>> ELSE o[wfda].dims[wftime].sampling_interval,
                     !.left_sweep =
                         IF lazy THEN <<0>>
                         ELSE <<PropValues(o, wfda, "left_sweep")[1]>>]
        finish(eest) == Mapped(NewNeo(st, eest), nix_mtag)
    IN  IF st.err # "" THEN Out(st, 0)
        ELSE IF positions = 0 THEN Out(Raise(st, "AttributeError"), 0)
        ELSE IF neo_type = "neo.epoch"
        THEN IF extents = 0 THEN Out(Raise(st, "AttributeError"), 0)
             ELSE IF ~lazy /\ o[positions].dims = <<>>
             THEN Out(Raise(st, "IndexError"), 0)
             ELSE finish(epoch)
        ELSE IF neo_type = "neo.event"
        THEN IF ~lazy /\ o[positions].dims = <<>>
             THEN Out(Raise(st, "IndexError"), 0)
             ELSE finish(event)
        ELSE IF neo_type = "neo.spiketrain"
        THEN IF ~HasProp(o, nix_mtag, "t_stop") THEN Out(Raise(st, "TypeError"), 0)
             ELSE IF Len(o[nix_mtag].features) = 0 THEN finish(train)
             ELSE IF wftime = 0 THEN Out(Raise(st, "AttributeError"), 0)
             ELSE IF ~lazy /\ o[wfda].metadata = 0 THEN Out(Raise(st, "TypeError"), 0)
             ELSE IF ~lazy /\ ~HasProp(o, wfda, "left_sweep")
             THEN Out(Raise(st, "KeyError"), 0)
             ELSE finish(wftrain)
        ELSE Out(st, 0)

\* NixIO.read_eest, also reached as read_epoch, read_event, read_spiketrain
read_eest(st, path, lazy) ==
    Only({
    IF st.err # "" THEN Out(st, 0)
    ELSE IF nix_mtag.err # "" THEN Out(Raise(st, nix_mtag.err), 0)
    ELSE Loaded(_mtag_eest_to_neo(st, nix_mtag.id, lazy), path, lazy)
    : nix_mtag \in {Resolve(st, path)} })

\* neo_obj._child_containers of the Neo classes
ChildContainers(cls) ==
    CASE cls = "Block" -> <<"segments", "recordingchannelgroups">>
      [] cls = "Segment" -> <<"analogsignals", "epochs", "events",
                              "irregularlysampledsignals", "spiketrains">>
      [] cls = "RecordingChannelGroup" ->
             <<"units", "analogsignals", "irregularlysampledsignals">>
      [] cls = "Unit" -> <<"spiketrains">>
      [] OTHER -> <<>>

\* neocontainer[:-1]
Singular(neocontainer) ==
    CASE neocontainer = "segments" -> "segment"
      [] neocontainer = "recordingchannelgroups" -> "recordingchannelgroup"
      [] neocontainer = "analogsignals" -> "analogsignal"
      [] neocontainer = "irregularlysampledsignals" -> "irregularlysampledsignal"
      [] neocontainer = "epochs" -> "epoch"
      [] neocontainer = "events" -> "event"
      [] neocontainer = "spiketrains" -> "spiketrain"
      [] OTHER -> "unit"

\* the distinct elements of a list, in order of first occurrence
RECURSIVE Distinct(_)
Distinct(xs) ==
    IF xs = <<>> THEN <<>>
    ELSE LET d == Distinct(DropLast(xs, 1))
         IN  IF xs[Len(xs)] \in Range(d) THEN d ELSE Append(d, xs[Len(xs)])

Reverse(xs) == [i \in 1..Len(xs) |-> xs[Len(xs) + 1 - i]]

\* a variant of _group_signals that returns the list of group paths as it
\* is, without making a set of it
_group_signals_NoSet(paths, rev) ==
    [i \in 1..Len(paths) |-> join(DropLast(split(paths[i], "."), 1), ".")]

\* NixIO._group_signals: list(set(grouppaths)), whose order is the set's
_group_signals(paths, rev) ==
    LET grouppaths == [i \in 1..Len(paths) |->
                          join(DropLast(split(paths[i], "."), 1), ".")]
    IN  IF rev THEN Reverse(Distinct(grouppaths)) ELSE Distinct(grouppaths)

\* NixIO._get_referers: the objects one of whose sources is called like
\* nix_obj
_get_referers(o, nix_obj, obj_list) ==
    SelectSeq(obj_list,
              LAMBDA ref : o[nix_obj].name \in
                               {o[o[ref].sources[i]].name :
                                    i \in 1..Len(o[ref].sources)})

\* NixIO._get_mapped_objects on NIX objects; ok is false when one of them
\* is not in the identity map (KeyError)
_get_mapped_objects(st, ids) ==
    [ok |-> \A i \in 1..Len(ids) : NixKey(ids[i]) \in DOMAIN st.map,
     vals |-> [i \in 1..Len(ids) |->
                  IF NixKey(ids[i]) \in DOMAIN st.map
                  THEN st.map[NixKey(ids[i])] ELSE 0]]

\* list(dict((s.name, s) for s in neo_objs).values()): one entry per name,
\* in order of the first occurrence of the name, holding the last object
DedupByName(heap_, idxs) ==
    LET names == Distinct([i \in 1..Len(idxs) |-> heap_[idxs[i]].name])
    IN  [k \in 1..Len(names) |->
            idxs[CHOOSE i \in 1..Len(idxs) :
                    /\ heap_[idxs[i]].name = names[k]
                    /\ \A j \in (i + 1)..Len(idxs) :
                          heap_[idxs[j]].name # names[k]]]

\* the part of _read_cascade after the loop: the references of a
\* RecordingChannelGroup to its signals (attr "analogsignals" or
\* "irregularlysampledsignals") and of a Unit to its spike trains
ExtendReferers(st, nix_obj, neo_idx, path, attr, collection, type, dedup) ==
    Only({
    IF st.err # "" THEN st
    ELSE IF pb.err # "" THEN Raise(st, pb.err)
    ELSE
    Only({
    IF ~neo_refs.ok THEN Raise(st, "KeyError")
    ELSE HeapSet(st, neo_idx, attr,
                 st.heap[neo_idx][attr]
                     \o (IF dedup THEN DedupByName(st.heap, neo_refs.vals)
                         ELSE neo_refs.vals))
    : neo_refs \in {_get_mapped_objects(st,
             _get_referers(st.objs, nix_obj,
                 SelectSeq(Collection(st.objs, pb.id, collection),
                           LAMBDA x : st.objs[x].type = type)))} })
    : pb \in {Resolve(st, BlockPathOf(path))} })

RECURSIVE _read_cascade(_, _, _, _, _)
RECURSIVE CascadeContainers(_, _, _, _, _, _, _)
RECURSIVE ReadChildren(_, _, _, _, _)
RECURSIVE read_segment(_, _, _, _)
RECURSIVE read_recordingchannelgroup(_, _, _, _)
RECURSIVE read_unit(_, _, _, _)

\* children = list(read_obj(cp, cascade, lazy) for cp in chpaths)
ReadChildren(st, neotype, chpaths, cascade, lazy) ==
    IF st.err # "" \/ chpaths = <<>> THEN [st |-> st, vals |-> <<>>]
    ELSE
    Only({
    Only({
    [st |-> rest.st, vals |-> <<r.val>> \o rest.vals]
    : rest \in {ReadChildren(r.st, neotype, Tail(chpaths), cascade, lazy)} })
    : r \in {CASE neotype = "segment" ->
                 read_segment(st, Head(chpaths), cascade, lazy)
           [] neotype = "recordingchannelgroup" ->
                 read_recordingchannelgroup(st, Head(chpaths), cascade, lazy)
           [] neotype = "unit" ->
                 read_unit(st, Head(chpaths), cascade, lazy)
           [] neotype \in {"analogsignal", "irregularlysampledsignal"} ->
                 read_signal(st, Head(chpaths), lazy)
           [] OTHER -> read_eest(st, Head(chpaths), lazy)} })

\* the loop of _read_cascade over neo_obj._child_containers
CascadeContainers(st, nix_obj, neo_idx, containers, path, cascade, lazy) ==
    LET neocontainer == Head(containers)
        nixcontainer == _container_map[neocontainer]
        o == st.objs
    IN  IF st.err # "" \/ containers = <<>> THEN st
        ELSE CascadeContainers(
                 IF ~HasAttr(o, nix_obj, nixcontainer) THEN st
                 ELSE
                 Only({
                 Only({
                 Only({
                 IF cascade # "lazy"
                 THEN \* setattr(neo_obj, neocontainer, children)
                      Only({
                      HeapSet(r.st, neo_idx, neocontainer, r.vals)
                      : r \in {ReadChildren(st, Singular(neocontainer), chpaths,
                                        cascade, lazy)} })
                 ELSE \* setattr(neo_obj, neocontainer, LazyList(...))
                      HeapSet(HeapSet(st, neo_idx, neocontainer, <<>>),
                              neo_idx, "lazylists",
                              Append(st.heap[neo_idx].lazylists,
                                     <<neocontainer, chpaths>>))
                 : chpaths \in {IF neocontainer \in {"analogsignals",
                                           "irregularlysampledsignals"}
                      THEN _group_signals(named, st.rev) ELSE named} })
                 : named \in {[i \in 1..Len(members) |->
                          path \o <<"/", neocontainer, "/">> \o o[members[i]].name]} })
                 : members \in {SelectSeq(Collection(o, nix_obj, nixcontainer),
                          LAMBDA c : o[c].type = "neo." \o Singular(neocontainer))} }),
                 nix_obj, neo_idx, Tail(containers), path, cascade, lazy)

\* NixIO._read_cascade
_read_cascade(st, nix_obj, path, cascade, lazy) ==
    IF st.err # "" THEN st
    ELSE IF NixKey(nix_obj) \notin DOMAIN st.map THEN Raise(st, "KeyError")
    ELSE
    LET neo_idx == st.map[NixKey(nix_obj)]
        cls == st.heap[neo_idx].cls
    IN
    Only({
    IF cls = "RecordingChannelGroup"
    THEN ExtendReferers(
             ExtendReferers(s, nix_obj, neo_idx, path, "analogsignals",
                            "data_arrays", "neo.analogsignal", TRUE),
             nix_obj, neo_idx, path, "irregularlysampledsignals",
             "data_arrays", "neo.irregularlysampledsignal", TRUE)
    ELSE IF cls = "Unit"
    THEN ExtendReferers(s, nix_obj, neo_idx, path, "spiketrains",
                        "multi_tags", "neo.spiketrain", FALSE)
    ELSE s
    : s \in {CascadeContainers(st, nix_obj, neo_idx, ChildContainers(cls),
                           path, cascade, lazy)} })

\* the common end of read_block, read_segment, read_recordingchannelgroup
\* and read_unit, after the object r was built from nix_obj
CascadeAndReturn(r, nix_obj, path, cascade, lazy) ==
    Loaded(Out(IF cascade # "False"
               THEN _read_cascade(r.st, nix_obj, path, cascade, lazy)
               ELSE r.st, r.val),
           path, lazy)

\* NixIO.read_segment
read_segment(st, path, cascade, lazy) ==
    Only({
    IF st.err # "" THEN Out(st, 0)
    ELSE IF nix_group.err # "" THEN Out(Raise(st, nix_group.err), 0)
    ELSE CascadeAndReturn(_group_to_neo(st, nix_group.id), nix_group.id,
                          path, cascade, lazy)
    : nix_group \in {Resolve(st, path)} })

\* NixIO.read_recordingchannelgroup
read_recordingchannelgroup(st, path, cascade, lazy) ==
    Only({
    IF st.err # "" THEN Out(st, 0)
    ELSE IF nix_source.err # "" THEN Out(Raise(st, nix_source.err), 0)
    ELSE CascadeAndReturn(_source_rcg_to_neo(st, nix_source.id),
                          nix_source.id, path, cascade, lazy)
    : nix_source \in {Resolve(st, path)} })

\* NixIO.read_unit
read_unit(st, path, cascade, lazy) ==
    Only({
    IF st.err # "" THEN Out(st, 0)
    ELSE IF nix_source.err # "" THEN Out(Raise(st, nix_source.err), 0)
    ELSE CascadeAndReturn(_source_unit_to_neo(st, nix_source.id),
                          nix_source.id, path, cascade, lazy)
    : nix_source \in {Resolve(st, path)} })

\* NixIO.read_block
read_block(st, path, cascade, lazy) ==
    Only({
    IF st.err # "" THEN Out(st, 0)
    ELSE IF nix_block.err # "" THEN Out(Raise(st, nix_block.err), 0)
    ELSE CascadeAndReturn(_block_to_neo(st, nix_block.id), nix_block.id,
                          path, cascade, lazy)
    : nix_block \in {Resolve(st, path)} })

-----------------------------------------------------------------------------
(* Bounds of the model                                                     *)

MaxBlocks == 3      \* root blocks written into one file
MaxChan == 11       \* channels of a signal
MaxReads == 2       \* Neo objects built by read calls
MaxTamper == 1      \* arrays whose section was reassigned through nixio

-----------------------------------------------------------------------------
(* neonix: the public calls as actions                                     *)

RetBlank ==
    [op |-> "", err |-> "", val |-> 0, path |-> <<>>, lazy |-> FALSE,
     cascade |-> "", blocks |-> <<>>, warn |-> 0, nblocks |-> 0]

Now == Ctx(objs, object_map, lazy_loaded, heap)

\* the state a call leaves behind (an exception does not roll anything back)
Commit(st, r) ==
    /\ objs' = st.objs
    /\ object_map' = st.map
    /\ lazy_loaded' = st.lazy
    /\ heap' = st.heap
    /\ ret' = [r EXCEPT !.err = st.err, !.warn = Len(st.warn),
                        !.nblocks = Len(ChildIds(objs, 0, "block"))]
    /\ UNCHANGED <<f2, neo2, ret2>>

\* io.write_block(neo_block)
WriteBlock(neo_block) ==
    /\ Len(ChildIds(objs, 0, "block")) < MaxBlocks
    /\ LET done(st) ==
               Commit(st, [RetBlank EXCEPT !.op = "write_block",
                              !.blocks = <<neo_block>>,
                              !.val = IF st.err = ""
                                      THEN st.map[PyKey(neo_block.oid)] ELSE 0])
       IN  done(write_block(Now, neo_block))

\* io.read_signal(path, lazy), also reached as read_analogsignal and
\* read_irregularlysampledsignal
ReadSignal(path, lazy) ==
    /\ Len(heap) < MaxReads
    /\ LET done(r) ==
               Commit(r.st, [RetBlank EXCEPT !.op = "read_signal", !.path = path,
                                !.lazy = lazy, !.val = r.val])
       IN  done(read_signal(Now, path, lazy))

\* the file is edited through nixio directly, as the read tests do:
\* da.metadata = section (or None)
SetMetadata(da, sec) ==
    /\ objs[da].metadata # sec
    /\ objs' = [objs EXCEPT ![da].metadata = sec]
    /\ ret' = [RetBlank EXCEPT !.op = "set_metadata"]
    /\ UNCHANGED <<object_map, lazy_loaded, heap, f2, neo2, ret2>>

\* io.read_block(path, cascade, lazy); rev is the order in which this run
\* iterates the set of signal group paths.  ret.blocks keeps the Blocks
\* of the last write call.
ReadBlock(path, cascade, lazy, rev) ==
    /\ Len(heap) < MaxReads
    /\ LET done(r) ==
               Commit(r.st, [RetBlank EXCEPT !.op = "read_block", !.path = path,
                                !.cascade = cascade, !.lazy = lazy, !.val = r.val,
                                !.blocks = ret.blocks])
       IN  done(read_block([Now EXCEPT !.rev = rev], path, cascade, lazy))

-----------------------------------------------------------------------------
(* neo2nix: the second NixIO, which keys every container by its name       *)

\* f2 is the file of the neo2nix NixIO (its objects, and whether a handle
\* was left open), neo2 the Block the caller holds (<<>>: none yet), ret2
\* the outcome of the last call: now is the number of Segments the Block
\* had at the last recursive write that succeeded (-1: none), before the
\* same one write earlier, removed the number of Segments taken out of the
\* Block between the two.
Ret2Blank ==
    [op |-> "", err |-> "", recursive |-> FALSE, before |-> -1, now |-> -1,
     removed |-> 0, pending |-> 0, val |-> <<>>]

\* NixHelp.get_block
get_block(st, block_id) ==
    LET b == ByName(st.objs, ChildIds(st.objs, 0, "block"), block_id)
    IN  IF b = 0 THEN NotFound("NameError") ELSE Found(b)

\* NixHelp.get_obj_nix_name: "%s @@ %s" % (x.name, parent_id)
get_obj_nix_name(obj, parent_id) == obj.name \o <<" ", "@", "@", " ">> \o parent_id

\* NixHelp.get_or_create_section; the result is the state and the section
get_or_create_section(st, root_section, group_name, name) ==
    LET lookup(s, parent, n) == ByName(s.objs, ChildIds(s.objs, parent, "section"), n)
    IN
    Only({
    Only({
    Only({
    Only({
    IF found # 0 THEN [st |-> s1, sec |-> found]
    ELSE Only({
         [st |-> s2, sec |-> NewId(s2)]
         : s2 \in {Create(s1, [NixBlank EXCEPT !.kind = "section",
                            !.parent = group_sec, !.name = name,
                            !.type = group_name])} })
    : found \in {lookup(s1, group_sec, name)} })
    : group_sec \in {IF found_group # 0 THEN found_group ELSE NewId(s1)} })
    : s1 \in {IF found_group # 0 THEN st
         ELSE Create(st, [NixBlank EXCEPT !.kind = "section",
                            !.parent = root_section,
                            !.name = <<group_name \o "s">>,
                            !.type = group_name])} })
    : found_group \in {lookup(st, root_section, <<group_name \o "s">>)} })

\* `if value:` for a Python value
PyTruthy(v) ==
    CASE v.t = "num" -> v.v # 0
      [] v.t = "str" -> v.v # ""
      [] v.t = "iter" -> Len(v.v) > 0
      [] OTHER -> TRUE

\* one item of the dict handed to write_metadata: the name, the tuple of
\* values and whether `if value:` lets it through
Item(name, values, truthy) == [name |-> name, values |-> values, truthy |-> truthy]

\* NixHelp.write_metadata; dict_to_store is a sequence of items
RECURSIVE write_metadata(_, _, _)
write_metadata(st, nix_section, dict_to_store) ==
    IF st.err # "" \/ dict_to_store = <<>> THEN st
    ELSE LET attr_name == Head(dict_to_store).name
             values == Head(dict_to_store).values
             props == st.objs[nix_section].props
             known == \E i \in 1..Len(props) : props[i].name = attr_name
             s1 == IF known
                   THEN [st EXCEPT !.objs[nix_section].props =
                            [i \in 1..Len(props) |->
                                IF props[i].name = attr_name
                                THEN [props[i] EXCEPT !.values = values]
                                ELSE props[i]]]
                   ELSE create_property(st, nix_section, attr_name, values)
         IN  write_metadata(IF Head(dict_to_store).truthy THEN s1 ELSE st,
                            nix_section, Tail(dict_to_store))

\* the dict of annotations and of the attributes that are not None
MetadataOf(obj, dated) ==
    [i \in 1..Len(obj.annotations) |->
        Item(obj.annotations[i][1], <<obj.annotations[i][2].v>>,
             PyTruthy(obj.annotations[i][2]))]
    \o (IF obj.description # <<>>
        THEN <<Item("description", obj.description, TRUE)>> ELSE <<>>)
    \o (IF obj.file_origin # <<>>
        THEN <<Item("file_origin", obj.file_origin, TRUE)>> ELSE <<>>)
    \o (IF dated /\ obj.file_datetime # <<>>
        THEN <<Item("file_datetime", obj.file_datetime, TRUE)>> ELSE <<>>)
    \o (IF dated /\ obj.rec_datetime # <<>>
        THEN <<Item("rec_datetime", obj.rec_datetime, TRUE)>> ELSE <<>>)

\* NixIO._write_analogsignal of neo2nix
_write_analogsignal(st, block_id, tag_id, signal) ==
    LET obj_name == get_obj_nix_name(signal, tag_id)
        metadata == MetadataOf(signal, FALSE)
                    \o <<Item("t_start", signal.t_start, signal.t_start # <<0>>),
                          Item("t_start__unit", <<"s">>, TRUE)>>
    IN
    Only({
    IF st.err # "" THEN st
    ELSE IF nb.err # "" THEN Raise(st, nb.err)
    ELSE
    Only({
    Only({
    Only({
    Only({
    Only({
    Only({
    Only({
    write_metadata(SetField(r.st, nix_array, "metadata", r.sec),
                   r.sec, metadata)
    : r \in {get_or_create_section(s4, s4.objs[nb.id].metadata, "analogsignal",
                               obj_name)} })
    : s4 \in {IF s3.err # "" THEN s3
         ELSE SetField(s3, nix_array, "dims",
                  <<[s3.objs[nix_array].dims[1] EXCEPT !.unit = <<"Hz">>]>>)} })
    : s3 \in {IF s2.err = "" /\ s2.objs[nix_array].dims = <<>>
         THEN SetField(s2, nix_array, "dims",
                  <<Dim("sample", <<>>, <<>>, <<>>, signal.sampling_period, <<>>)>>)
         ELSE s2} })
    : s2 \in {SetField(s1, nix_array, "unit", signal.units_str)} })
    : nix_array \in {IF found # 0 THEN found ELSE NewId(s1)} })
    : s1 \in {IF found # 0 THEN st
         ELSE Create(st, [NixBlank EXCEPT !.kind = "data_array",
                            !.parent = nb.id, !.name = obj_name,
                            !.type = "neo_analogsignal",
                            !.data = signal.signal])} })
    : found \in {ByName(st.objs, ChildIds(st.objs, nb.id, "data_array"), obj_name)} })
    : nb \in {get_block(st, block_id)} })

RECURSIVE WriteSignals2(_, _, _, _)
WriteSignals2(st, block_id, tag_id, signals) ==
    IF st.err # "" \/ signals = <<>> THEN st
    ELSE WriteSignals2(_write_analogsignal(st, block_id, tag_id, Head(signals)),
                       block_id, tag_id, Tail(signals))

\* `for da in nix_tag.references: if da.name in to_remove: del ...`: the
\* loop walks the list by position while the list shrinks under it
RECURSIVE UnlinkRemoved(_, _, _, _)
UnlinkRemoved(st, nix_tag, to_remove, i) ==
    IF st.err # "" \/ i > Len(st.objs[nix_tag].references) THEN st
    ELSE LET refs == st.objs[nix_tag].references
         IN  IF st.objs[refs[i]].name \in to_remove
             THEN UnlinkRemoved(
                      SetField(st, nix_tag, "references",
                               SubSeq(refs, 1, i - 1) \o SubSeq(refs, i + 1, Len(refs))),
                      nix_tag, to_remove, i + 1)
             ELSE UnlinkRemoved(st, nix_tag, to_remove, i + 1)

\* NixIO._write_segment of neo2nix
_write_segment(st, block_id, segment, recursive) ==
    Only({
    IF st.err # "" THEN st
    ELSE IF nb.err # "" THEN Raise(st, nb.err)
    ELSE
    Only({
    Only({
    Only({
    Only({
    Only({
    IF ~recursive \/ s2.err # "" THEN s2
    ELSE
    \* conv: the names the signals get; names: those of the arrays the tag
    \* refers to
    Only({
    Only({
    Only({
    \* nix_tag.references.append(nix_block.data_arrays[name])
    Only({
    IF s3.err # "" THEN s3
    ELSE AppendLinks(s3, nix_tag, "references",
             [i \in 1..Len(to_append) |->
                 ByName(s3.objs, ChildIds(s3.objs, nb.id, "data_array"),
                        to_append[i])])
    : to_append \in {SelectSeq(IF s2.rev THEN Reverse(Distinct(conv)) ELSE Distinct(conv),
                   LAMBDA n : n \notin names)} })
    : s3 \in {UnlinkRemoved(
             WriteSignals2(s2, s2.objs[nb.id].name, s2.objs[nix_tag].name,
                           segment.analogsignals),
             nix_tag, names \ Range(conv), 1)} })
    : names \in {NamesOf(s2.objs,
             SelectSeq(s2.objs[nix_tag].references,
                       LAMBDA x : s2.objs[x].type = "neo_analogsignal"))} })
    : conv \in {[i \in 1..Len(segment.analogsignals) |->
             get_obj_nix_name(segment.analogsignals[i], s2.objs[nix_tag].name)]} })
    : s2 \in {write_metadata(SetField(r.st, nix_tag, "metadata", r.sec),
                        r.sec, MetadataOf(segment, TRUE))} })
    : r \in {get_or_create_section(s1, s1.objs[nb.id].metadata, "segment",
                               segment.name)} })
    : nix_tag \in {IF found # 0 THEN found ELSE NewId(s1)} })
    : s1 \in {IF found # 0 THEN st
         ELSE Create(st, [NixBlank EXCEPT !.kind = "tag", !.parent = nb.id,
                            !.name = segment.name,
                            !.type = "neo_segment"])} })
    : found \in {ByName(st.objs, ChildIds(st.objs, nb.id, "tag"), segment.name)} })
    : nb \in {get_block(st, block_id)} })

RECURSIVE WriteSegments2(_, _, _, _)
WriteSegments2(st, block_id, segments, recursive) ==
    IF st.err # "" \/ segments = <<>> THEN st
    ELSE WriteSegments2(_write_segment(st, block_id, Head(segments), recursive),
                        block_id, Tail(segments), recursive)

\* del nix_block.tags[name] for every name in to_remove
DeleteTags(st, nix_block, to_remove) ==
    IF st.err # "" THEN st
    ELSE LET o == st.objs
         IN  [st EXCEPT !.objs =
                [i \in 1..Len(o) |->
                    IF o[i].kind = "tag" /\ o[i].parent = nix_block
                       /\ o[i].name \in to_remove
                    THEN [o[i] EXCEPT !.kind = "deleted"] ELSE o[i]]]

\* NixIO._write_block of neo2nix
_write_block(st, block, recursive) ==
    Only({
    Only({
    Only({
    Only({
    Only({
    Only({
    Only({
    IF ~recursive \/ s4.err # "" THEN s4
    ELSE DeleteTags(
             WriteSegments2(s4, s4.objs[nix_block].name, block.segments,
                            recursive),
             nix_block,
             NamesOf(s4.objs,
                 SelectSeq(ChildIds(s4.objs, nix_block, "tag"),
                           LAMBDA x : s4.objs[x].type = "neo_segment"))
                 \ {block.segments[i].name : i \in 1..Len(block.segments)})
    : s4 \in {write_metadata(s3, s3.objs[nix_block].metadata,
                        MetadataOf(block, TRUE))} })
    : s3 \in {SetField(s2, nix_block, "metadata",
                  IF found_sec # 0 THEN found_sec ELSE NewId(s2))} })
    : s2 \in {IF found_sec # 0 THEN s1
         ELSE Create(s1, [NixBlank EXCEPT !.kind = "section", !.parent = 0,
                            !.name = block.name, !.type = "block"])} })
    : found_sec \in {ByName(s1.objs, ChildIds(s1.objs, 0, "section"), block.name)} })
    : nix_block \in {IF found # 0 THEN found ELSE NewId(s1)} })
    : s1 \in {IF found # 0 THEN st
         ELSE Create(st, [NixBlank EXCEPT !.kind = "block", !.parent = 0,
                            !.name = block.name, !.type = "neo_block"])} })
    : found \in {ByName(st.objs, ChildIds(st.objs, 0, "block"), block.name)} })

\* the caller makes a Block
NewBlock(b) ==
    /\ neo2 = <<>>
    /\ neo2' = b
    /\ ret2' = [Ret2Blank EXCEPT !.op = "new"]
    /\ UNCHANGED <<objs, object_map, lazy_loaded, heap, ret, f2>>

\* the caller takes the i-th Segment out of the list of the Block
RemoveSegment(i) ==
    /\ neo2 # <<>>
    /\ i \in 1..Len(neo2.segments)
    /\ neo2' = [neo2 EXCEPT !.segments =
                   SubSeq(@, 1, i - 1) \o SubSeq(@, i + 1, Len(@))]
    /\ ret2' = [ret2 EXCEPT !.op = "remove_segment", !.err = "",
                            !.pending = @ + 1]
    /\ UNCHANGED <<objs, object_map, lazy_loaded, heap, ret, f2>>

\* io.write_block(block, recursive) of neo2nix under file_transaction: the
\* file is opened, the method runs, the file is closed if it returned
N2WriteBlock(recursive, rev) ==
    /\ neo2 # <<>>
    /\ LET done(st) ==
               /\ f2' = [objs |-> st.objs, open |-> st.err # ""]
               /\ ret2' = [op |-> "write_block", err |-> st.err,
                           recursive |-> recursive,
                           before |-> ret2.now,
                           now |-> IF st.err = "" /\ recursive
                                   THEN Len(neo2.segments) ELSE -1,
                           removed |-> ret2.pending, pending |-> 0,
                           val |-> <<>>]
       IN  done(_write_block([Ctx(f2.objs, <<>>, <<>>, <<>>) EXCEPT !.rev = rev],
                             neo2, recursive))
    /\ UNCHANGED <<objs, object_map, lazy_loaded, heap, ret, neo2>>

Init ==
    /\ objs = <<>>
    /\ object_map = <<>>
    /\ lazy_loaded = <<>>
    /\ heap = <<>>
    /\ ret = RetBlank
    /\ f2 = [objs |-> <<>>, open |-> FALSE]
    /\ neo2 = <<>>
    /\ ret2 = Ret2Blank

-----------------------------------------------------------------------------
(* Signals: one Segment with one or two signals of up to MaxChan channels  *)

Neo(cls, oid, name) == [NeoBlank EXCEPT !.cls = cls, !.oid = oid, !.name = name]

\* a signal whose channel i carries the payload off + i
Signal(cls, oid, name, K, off) ==
    [Neo(cls, oid, name) EXCEPT
        !.signal = [i \in 1..K |-> off + i], !.units_str = <<"mV">>,
        !.t_start = <<0>>, !.sampling_period = <<1>>,
        !.times = IF cls = "IrregularlySampledSignal" THEN <<1, 2>> ELSE <<>>]

SigClasses == {"AnalogSignal", "IrregularlySampledSignal"}

SegmentOf(oid, name, sigs) ==
    [Neo("Segment", oid, name) EXCEPT
        !.analogsignals = SelectSeq(sigs, LAMBDA x : x.cls = "AnalogSignal"),
        !.irregularlysampledsignals =
            SelectSeq(sigs, LAMBDA x : x.cls = "IrregularlySampledSignal")]

SigBlocks ==
    {[Neo("Block", 1, <<"B">>) EXCEPT !.segments = <<SegmentOf(2, <<"S">>, sigs)>>] :
        sigs \in {<<Signal(c, 3, <<"A">>, K, 0)>> :
                      c \in SigClasses, K \in 0..MaxChan}
                 \cup {<<Signal(c, 3, <<"A">>, K, 0), Signal(d, 4, <<"A">>, 1, 20)>> :
                      c \in SigClasses, d \in SigClasses, K \in 1..2}}

\* the group path of every signal array of the file, as _read_cascade
\* composes it, and the path of a signal group that does not exist
GroupPath(o, g, da) ==
    <<"/">> \o o[o[g].parent].name \o <<"/", "segments", "/">> \o o[g].name
        \o <<"/", "analogsignals", "/">>
        \o join(DropLast(split(o[da].name, "."), 1), ".")

SignalPaths ==
    UNION {{GroupPath(objs, g, objs[g].data_arrays[i]) :
                i \in 1..Len(objs[g].data_arrays)} :
           g \in {x \in 1..Len(objs) : objs[x].kind = "group"}}

IsSignalArray(o, i) ==
    o[i].kind = "data_array"
    /\ o[i].type \in {"neo.analogsignal", "neo.irregularlysampledsignal"}

\* the arrays whose section is not the one named after their signal group
Tampered(o) ==
    {i \in 1..Len(o) :
        /\ IsSignalArray(o, i)
        /\ \/ o[i].metadata = 0
           \/ o[o[i].metadata].name # join(DropLast(split(o[i].name, "."), 1), ".")}

NextSig ==
    \/ \E b \in SigBlocks : objs = <<>> /\ WriteBlock(b)
    \/ \E p \in SignalPaths, lazy \in BOOLEAN : ReadSignal(p, lazy)
    \/ \E da \in {i \in 1..Len(objs) : IsSignalArray(objs, i)},
          sec \in {0} \cup {i \in 1..Len(objs) : objs[i].kind = "section"} :
            /\ Cardinality(Tampered(objs)) < MaxTamper
            /\ heap = <<>>
            /\ SetMetadata(da, sec)

SpecSig == Init /\ [][NextSig]_vars

-----------------------------------------------------------------------------
(* Properties of signal writing and reading (checked under SpecSig)        *)

WrittenBlock == ret.blocks[Len(ret.blocks)]

WroteOk == ret.op = "write_block" /\ ret.err = ""

SignalsOf(seg) == Range(seg.analogsignals) \cup Range(seg.irregularlysampledsignals)

SignalSections(o) ==
    {i \in 1..Len(o) : o[i].kind = "section"
        /\ o[i].type \in {"neo.analogsignal.metadata",
                          "neo.irregularlysampledsignal.metadata"}}

\* the name of the signal group an array belongs to: its name up to the
\* last "."
GroupNameOf(o, da) == join(DropLast(split(o[da].name, "."), 1), ".")

\* C3: right after write_block, a signal with K channels has exactly K
\* Arrays, named <group>.0 .. <group>.(K-1), each linked from the Group
\* of its Segment, and all of them point to one section, which was made
\* once for that signal.
C3_KArraysShareOneSection ==
    WroteOk =>
      /\ \A seg \in Range(WrittenBlock.segments) : \A sig \in SignalsOf(seg) :
           LET ids == object_map[PyKey(sig.oid)]
               grp == object_map[PyKey(seg.oid)]
               K   == Len(sig.signal)
           IN  /\ Len(ids) = K
               /\ \A i \in 1..K :
                     /\ objs[ids[i]].kind = "data_array"
                     /\ objs[ids[i]].name =
                            GroupNameOf(objs, ids[1]) \o <<".">> \o Str(i - 1)
                     /\ \E k \in 1..Len(objs[grp].data_arrays) :
                            objs[grp].data_arrays[k] = ids[i]
                     /\ objs[ids[i]].metadata = objs[ids[1]].metadata
                     /\ objs[ids[i]].metadata \in SignalSections(objs)
                     /\ objs[objs[ids[i]].metadata].name = GroupNameOf(objs, ids[1])
               /\ K > 0 =>
                     Cardinality({d \in 1..Len(objs) : IsSignalArray(objs, d)
                         /\ objs[d].parent = objs[grp].parent
                         /\ GroupNameOf(objs, d) = GroupNameOf(objs, ids[1])}) = K
      /\ Cardinality(SignalSections(objs)) =
           Cardinality(UNION {{sig.oid : sig \in SignalsOf(seg)} :
                                 seg \in Range(WrittenBlock.segments)})

C3_Witness ==
    /\ WroteOk
    /\ \E seg \in Range(WrittenBlock.segments) : \E sig \in SignalsOf(seg) :
          /\ Len(sig.signal) = 3
          /\ Len(object_map[PyKey(sig.oid)]) = 3

\* the arrays read_signal collects for a path, in the file as it is
GroupAt(o, path) ==
    LET parts == split(path, "/")
        pg == _get_object_at(o, join(DropLast(parts, 2), "/"))
    IN  IF pg.err # "" \/ ~HasAttr(o, pg.id, "data_arrays") THEN <<>>
        ELSE SignalGroup(o, Collection(o, pg.id, "data_arrays"), parts[Len(parts)], 0)

Diverges(o, group) ==
    \E i \in 1..Len(group) : o[group[i]].metadata # o[group[1]].metadata

ReadOk == ret.op = "read_signal" /\ ret.err = "" /\ ret.val # 0

\* C5: a non-lazy read stacks the Arrays by channel index: channel i of
\* the signal read is the payload of Array <group>.<i>.
C5_ChannelOrder ==
    (ReadOk /\ ~ret.lazy) =>
       LET group == GroupAt(objs, ret.path)
       IN  /\ Len(heap[ret.val].signal) = Len(group)
           /\ \A i \in 1..Len(group) :
                 heap[ret.val].signal[i] = objs[group[i]].data[1]

KindOfType(t) ==
    IF t = "neo.analogsignal" THEN "AnalogSignal" ELSE "IrregularlySampledSignal"

\* C10: a lazy read returns an empty payload with the stored unit and kind
\* and records the path; a non-lazy read returns the stored payload, channel
\* by channel, with the stored unit and kind.
C10_LazyPlaceholder ==
    ReadOk =>
       LET group == GroupAt(objs, ret.path)
           sig   == heap[ret.val]
       IN  /\ sig.units_str = objs[group[1]].unit
           /\ sig.cls = KindOfType(objs[group[1]].type)
           /\ ret.lazy => /\ sig.signal = <<>>
                          /\ \E k \in 1..Len(lazy_loaded) : lazy_loaded[k] = ret.path
           /\ ~ret.lazy => sig.signal = [i \in 1..Len(group) |-> objs[group[i]].data[1]]

-----------------------------------------------------------------------------
(* Names: Blocks whose children carry empty, equal or suffixed names       *)

Epoch(oid, name) ==
    [Neo("Epoch", oid, name) EXCEPT !.times = <<1>>, !.durations = <<2>>,
                                    !.labels = <<"l">>]

Event(oid, name) ==
    [Neo("Event", oid, name) EXCEPT !.times = <<3>>, !.labels = <<"l">>]

\* wf is <<>> for a spike train without waveforms
SpikeTrain(oid, name, wf) ==
    [Neo("SpikeTrain", oid, name) EXCEPT !.times = <<4>>, !.t_stop = <<9>>,
                                         !.waveforms = wf,
                                         !.sampling_period = <<1>>]

\* sts: the oids of the spike trains the Unit refers to
Unit(oid, name, sts) == [Neo("Unit", oid, name) EXCEPT !.spiketrains = sts]

\* sigs: the oids of the regular signals the group refers to
RCG(oid, name, channel_names, nchan, units, sigs) ==
    [Neo("RecordingChannelGroup", oid, name) EXCEPT
        !.channel_indexes = [i \in 1..nchan |-> i - 1],
        !.channel_names = channel_names,
        !.units = units, !.analogsignals = sigs]

BlockOf(oid, name, segments, rcgs) ==
    [Neo("Block", oid, name) EXCEPT !.segments = segments,
                                    !.recordingchannelgroups = rcgs]

\* a Segment with all five kinds of children
FullSegment(oid, name, sigs, epochs, events, spiketrains) ==
    [SegmentOf(oid, name, sigs) EXCEPT !.epochs = epochs, !.events = events,
                                       !.spiketrains = spiketrains]

Names3 == {<<>>, <<"A">>, <<"A", "-", "1">>}
Names2 == {<<>>, <<"A">>}

\* Blocks without children
PlainBlocks(base) == {BlockOf(base + 1, n, <<>>, <<>>) : n \in Names3}

\* Blocks whose children share a sibling namespace
NamedChildren(base) ==
    {BlockOf(base + 1, <<"A">>,
             <<SegmentOf(base + 2, n1, <<>>), SegmentOf(base + 3, n2, <<>>)>>,
             <<>>) : n1 \in Names3, n2 \in Names3}
    \cup {BlockOf(base + 1, <<"A">>,
             <<SegmentOf(base + 2, <<"S">>,
                   <<Signal("AnalogSignal", base + 3, n1, 1, 0),
                     Signal(c, base + 4, n2, 1, 10)>>)>>,
             <<>>) : n1 \in Names3, n2 \in Names3, c \in SigClasses}
    \cup {BlockOf(base + 1, <<"A">>,
             <<SegmentOf(base + 2, <<"S">>,
                   <<Signal("AnalogSignal", base + 3, n1, 2, 0)>>),
               SegmentOf(base + 4, <<"T">>,
                   <<Signal("AnalogSignal", base + 5, n2, 1, 10)>>)>>,
             <<>>) : n1 \in Names2, n2 \in Names2}
    \cup {BlockOf(base + 1, <<"A">>,
             <<FullSegment(base + 2, <<"S">>, <<>>,
                   <<Epoch(base + 3, n1)>>, <<Event(base + 4, n2)>>,
                   <<SpikeTrain(base + 5, n1, <<7>>)>>)>>,
             <<>>) : n1 \in Names2, n2 \in Names2}
    \cup {BlockOf(base + 1, <<"A">>, <<>>,
             <<RCG(base + 2, n1, <<>>, 1, <<>>, <<>>),
               RCG(base + 3, n2, <<>>, 1, <<>>, <<>>)>>)
             : n1 \in Names2, n2 \in Names2}
    \cup {BlockOf(base + 1, <<"A">>, <<>>,
             <<RCG(base + 2, <<"G">>, cn, 2,
                   <<Unit(base + 3, n1, <<>>), Unit(base + 4, n2, <<>>)>>,
                   <<>>)>>)
             : n1 \in Names2, n2 \in Names2,
               cn \in {<<>>, << <<"A">>, <<"A", "-", "1">> >>,
                       << <<"A">>, <<"A">> >>}}

MaxFull == 1        \* Blocks in the file before a Block with children is written

NameBlocks(base) ==
    PlainBlocks(base)
    \cup IF Len(ChildIds(objs, 0, "block")) < MaxFull THEN NamedChildren(base)
         ELSE {}

\* the oids of one call are new objects
Base == 10 * Len(ChildIds(objs, 0, "block"))

\* list(map(self.write_block, neo_blocks))
RECURSIVE write_all_blocks(_, _)
write_all_blocks(st, neo_blocks) ==
    IF st.err # "" \/ neo_blocks = <<>> THEN st
    ELSE write_all_blocks(write_block(st, Head(neo_blocks)), Tail(neo_blocks))

\* io.write_all_blocks(neo_blocks)
WriteAllBlocks(neo_blocks) ==
    /\ Len(ChildIds(objs, 0, "block")) + Len(neo_blocks) <= MaxBlocks
    /\ LET done(st) ==
               Commit(st, [RetBlank EXCEPT !.op = "write_all_blocks",
                              !.blocks = neo_blocks,
                              !.val = IF st.err = ""
                                      THEN st.map[PyKey(neo_blocks[Len(neo_blocks)].oid)]
                                      ELSE 0])
       IN  done(write_all_blocks(Now, neo_blocks))

NextNames ==
    \/ \E b \in NameBlocks(Base) : WriteBlock(b)
    \/ \E b1 \in NameBlocks(Base), b2 \in PlainBlocks(Base + 10) :
          WriteAllBlocks(<<b1, b2>>)

SpecNames == Init /\ [][NextNames]_vars

-----------------------------------------------------------------------------
(* Properties of the name mediator (checked under SpecNames)               *)

WriteOps == {"write_block", "write_all_blocks"}

DuplicateNames ==
    {"DuplicateName." \o k :
        k \in {"block", "group", "source", "data_array", "multi_tag"}}

\* the objects of one sibling namespace: same owner, same kind
Siblings(o, i, j) == i # j /\ o[i].kind = o[j].kind /\ o[i].parent = o[j].parent

\* C1: after any sequence of write_block / write_all_blocks calls no create
\* call was issued with a name its target collection already holds, and
\* the names are pairwise distinct within the file's blocks, each Block's
\* groups, sources, data_arrays and multi_tags, and each Source's sources.
C1_NamesDistinct ==
    ret.op \in WriteOps =>
       /\ ret.err \notin DuplicateNames
       /\ \A i \in 1..Len(objs) : \A j \in 1..Len(objs) :
             (Siblings(objs, i, j) /\ objs[i].kind # "section")
                 => objs[i].name # objs[j].name

RootIds(o) == ChildIds(o, 0, "block")

\* a write_block call of a named Block whose name a root container has
RewritesName ==
    /\ ret'.op = "write_block"
    /\ ret'.blocks[1].name # <<>>
    /\ ret'.blocks[1].name \in NamesOf(objs, RootIds(objs))

-----------------------------------------------------------------------------
(* References: two ChannelGroups with one Unit each, two spike trains      *)

UnitNames == {<<>>, <<"U">>, <<"H">>}

\* the spike trains have the oids 3 and 4, the signal has the oid 5
SpikeRefs == {<<>>, <<3>>, <<3, 4>>}

RefBlocks ==
    {BlockOf(1, <<"B">>,
        <<FullSegment(2, <<"S">>, <<Signal("AnalogSignal", 5, <<"A">>, 1, 0)>>,
                      <<>>, <<>>,
                      <<SpikeTrain(3, t, <<>>), SpikeTrain(4, t, <<7>>)>>)>>,
        <<RCG(6, <<"G">>, <<>>, 1, <<Unit(7, n1, r1)>>, sr),
          RCG(8, <<"H">>, <<>>, 1, <<Unit(9, n2, r2)>>, <<>>)>>)
        : t \in Names2, sr \in {<<>>, <<5>>},
          n1 \in UnitNames, n2 \in UnitNames,
          r1 \in SpikeRefs, r2 \in SpikeRefs}

RootPaths == {<<"/">> \o objs[b].name : b \in Range(RootIds(objs))}

Cascades == {"True", "False", "lazy"}

NextRefs ==
    \/ \E b \in RefBlocks : objs = <<>> /\ WriteBlock(b)
    \/ \E p \in RootPaths, c \in Cascades, lazy \in BOOLEAN, rev \in BOOLEAN :
          ReadBlock(p, c, lazy, rev)

SpecRefs == Init /\ [][NextRefs]_vars

-----------------------------------------------------------------------------
(* Properties of the references (checked under SpecRefs)                   *)

\* the container written for a Neo object, and the Neo object read from a
\* container
Written(oid) == object_map[PyKey(oid)]
ReadOf(id) == object_map[NixKey(id)]

\* C6: after write_block, for every Unit U of ChannelGroup G and every
\* spike train S of U, the sources of the Tag written for S contain the
\* Source written for U and the Source written for G.
C6_TagSourcesUnitAndGroup ==
    WroteOk =>
       \A g \in Range(WrittenBlock.recordingchannelgroups) :
          \A u \in Range(g.units) : \A s \in Range(u.spiketrains) :
             /\ objs[Written(s)].kind = "multi_tag"
             /\ Written(u.oid) \in Range(objs[Written(s)].sources)
             /\ Written(g.oid) \in Range(objs[Written(s)].sources)
             /\ objs[Written(u.oid)].parent = Written(g.oid)

\* both Units refer to a spike train, and the first one to both
C6_Witness ==
    /\ WroteOk
    /\ Len(WrittenBlock.recordingchannelgroups) = 2
    /\ Len(WrittenBlock.recordingchannelgroups[1].units[1].spiketrains) = 2
    /\ Len(WrittenBlock.recordingchannelgroups[2].units[1].spiketrains) = 1
    /\ Len(objs[Written(3)].sources) = 4

\* C7: after write_block and read_block with full cascade, the spike
\* trains attached to the Unit read are the ones the Unit written referred
\* to, no more and no fewer, whatever the names.
C7_UnitEdgesRecovered ==
    (ret.op = "read_block" /\ ret.err = "" /\ ret.cascade = "True") =>
       \A b \in Range(ret.blocks) : \A g \in Range(b.recordingchannelgroups) :
          \A u \in Range(g.units) :
             Range(heap[ReadOf(Written(u.oid))].spiketrains)
                 = {ReadOf(Written(s)) : s \in Range(u.spiketrains)}

-----------------------------------------------------------------------------
(* Metadata: one Block with every kind of child, attributes here and there *)

\* the object with a file_origin, when the flag is set
Fo(x, flag) == IF flag THEN [x EXCEPT !.file_origin = <<"f">>] ELSE x

\* the object with an annotation, when the flag is set
Ann(x, flag) ==
    IF flag THEN [x EXCEPT !.annotations = << <<"k", PyVal("num", 1)>> >>] ELSE x

MetaBlocks ==
    {Fo(BlockOf(1, <<"B">>,
           <<Fo(FullSegment(2, <<"S">>,
                    <<Signal("AnalogSignal", 3, <<"A">>, 2, 0)>>,
                    <<Fo(Epoch(4, <<"E">>), fe)>>,
                    <<Ann(Event(5, <<"V">>), fv)>>,
                    <<SpikeTrain(6, <<"T">>, <<7>>)>>), fs)>>,
           <<Fo(RCG(7, <<"G">>, <<>>, 1, <<Fo(Unit(8, <<"U">>, r), fu)>>, <<3>>),
                fg)>>), fb)
        : fb \in BOOLEAN, fs \in BOOLEAN, fe \in BOOLEAN, fv \in BOOLEAN,
          fg \in BOOLEAN, fu \in BOOLEAN, r \in {<<>>, <<6>>}}

NextMeta ==
    \/ \E b \in MetaBlocks : objs = <<>> /\ WriteBlock(b)
    \/ \E p \in RootPaths, lazy \in BOOLEAN : ReadBlock(p, "True", lazy, FALSE)

SpecMeta == Init /\ [][NextMeta]_vars

-----------------------------------------------------------------------------
(* Properties of the metadata tree (checked under SpecMeta)                *)

\* the containers written for the children of a Segment: the Arrays of its
\* signals and the Tags of its epochs, events and spike trains
WrittenChildren(seg) ==
    UNION {Range(Written(sig.oid)) : sig \in SignalsOf(seg)}
    \cup {Written(x.oid) :
            x \in Range(seg.epochs) \cup Range(seg.events) \cup Range(seg.spiketrains)}

\* x has no section, or its section is a child of the section of p
SectionUnder(x, p) ==
    objs[x].metadata # 0 =>
       /\ objs[p].metadata # 0
       /\ objs[objs[x].metadata].kind = "section"
       /\ objs[objs[x].metadata].parent = objs[p].metadata

\* the Arrays written for one signal
SameSignal(x, y) ==
    /\ IsSignalArray(objs, x) /\ IsSignalArray(objs, y)
    /\ GroupNameOf(objs, x) = GroupNameOf(objs, y)

-----------------------------------------------------------------------------
(* neo2nix: a Block of up to MaxSegs Segments, written, shrunk, rewritten  *)

MaxSegs == 3

SegNames == {<<"s">>, <<"t">>}

\* a Segment of neo2nix: named, with no signal or with the signal "a"
Segs2 ==
    {SegmentOf(0, n, sigs) :
        n \in SegNames,
        sigs \in {<<>>, <<Signal("AnalogSignal", 0, <<"a">>, 1, 0)>>}}

RECURSIVE SeqsOf(_, _)
SeqsOf(S, n) ==
    IF n = 0 THEN {<<>>}
    ELSE {Append(q, x) : q \in SeqsOf(S, n - 1), x \in S}

Blocks2 ==
    {BlockOf(0, <<"b">>, segs, <<>>) :
        segs \in UNION {SeqsOf(Segs2, n) : n \in 1..MaxSegs}}

NextN2 ==
    \/ \E b \in Blocks2 : NewBlock(b)
    \/ \E i \in 1..MaxSegs : RemoveSegment(i)
    \/ \E recursive \in BOOLEAN, rev \in BOOLEAN : N2WriteBlock(recursive, rev)

SpecN2 == Init /\ [][NextN2]_vars

-----------------------------------------------------------------------------
(* Properties of neo2nix (checked under SpecN2)                            *)

\* the containers of type neo_segment under the Block of the caller
SegmentTags ==
    LET b == ByName(f2.objs, ChildIds(f2.objs, 0, "block"), neo2.name)
    IN  {i \in 1..Len(f2.objs) :
            /\ f2.objs[i].kind = "tag" /\ f2.objs[i].parent = b
            /\ f2.objs[i].type = "neo_segment"}

\* C8: a Block with N Segments was written, one Segment was taken out of
\* its list, and the Block was written again (recursive): exactly N-1
\* containers of type neo_segment are under the Block, for every N and
\* all Segment names.
C8_ShrunkBlockLeavesNMinus1 ==
    (ret2.op = "write_block" /\ ret2.err = "" /\ ret2.recursive
        /\ ret2.before >= 1 /\ ret2.removed = 1) =>
       Cardinality(SegmentTags) = ret2.before - 1

-----------------------------------------------------------------------------
(* Reads of one entity: a Block with a Segment, a ChannelGroup and Units   *)

\* io.read_segment(path, cascade, lazy)
ReadSegment(path, cascade, lazy, rev) ==
    /\ Len(heap) < MaxReads
    /\ LET done(r) ==
               Commit(r.st, [RetBlank EXCEPT !.op = "read_segment", !.path = path,
                                !.cascade = cascade, !.lazy = lazy, !.val = r.val,
                                !.blocks = ret.blocks])
       IN  done(read_segment([Now EXCEPT !.rev = rev], path, cascade, lazy))

\* io.read_recordingchannelgroup(path, cascade, lazy)
ReadRecordingChannelGroup(path, cascade, lazy) ==
    /\ Len(heap) < MaxReads
    /\ LET done(r) ==
               Commit(r.st, [RetBlank EXCEPT !.op = "read_recordingchannelgroup",
                                !.path = path, !.cascade = cascade,
                                !.lazy = lazy, !.val = r.val,
                                !.blocks = ret.blocks])
       IN  done(read_recordingchannelgroup(Now, path, cascade, lazy))

\* io.read_unit(path, cascade, lazy)
ReadUnit(path, cascade, lazy) ==
    /\ Len(heap) < MaxReads
    /\ LET done(r) ==
               Commit(r.st, [RetBlank EXCEPT !.op = "read_unit", !.path = path,
                                !.cascade = cascade, !.lazy = lazy, !.val = r.val,
                                !.blocks = ret.blocks])
       IN  done(read_unit(Now, path, cascade, lazy))

\* the path of a container, as the write methods compose it
RECURSIVE PathOf(_, _)
PathOf(o, id) ==
    IF o[id].kind = "block" THEN <<"/">> \o o[id].name
    ELSE PathOf(o, o[id].parent)
             \o <<"/", CASE o[id].kind = "group" -> "segments"
                         [] o[id].type = "neo.unit" -> "units"
                         [] OTHER -> "recordingchannelgroups", "/">>
             \o o[id].name

PathsOf(kind, type) ==
    {PathOf(objs, i) : i \in {x \in 1..Len(objs) :
                                 objs[x].kind = kind /\ objs[x].type = type}}

\* one Segment with a signal and a spike train, one ChannelGroup with no,
\* one or two Units
CascBlocks ==
    {BlockOf(1, <<"B">>,
        <<FullSegment(2, <<"S">>, <<Signal("AnalogSignal", 5, <<"A">>, 1, 0)>>,
                      <<>>, <<>>, <<SpikeTrain(3, <<"T">>, <<>>)>>)>>,
        <<RCG(6, <<"G">>, <<>>, 1, units, <<5>>)>>)
        : units \in {<<>>, <<Unit(7, <<"U">>, <<3>>)>>,
                     <<Unit(7, <<"U">>, <<3>>), Unit(8, <<"V">>, <<>>)>>}}

NextCasc ==
    \/ \E b \in CascBlocks : objs = <<>> /\ WriteBlock(b)
    \/ \E p \in RootPaths, c \in Cascades, lazy \in BOOLEAN :
          ReadBlock(p, c, lazy, FALSE)
    \/ \E p \in PathsOf("group", "neo.segment"), c \in Cascades, lazy \in BOOLEAN :
          ReadSegment(p, c, lazy, FALSE)
    \/ \E p \in PathsOf("source", "neo.recordingchannelgroup"), c \in Cascades,
          lazy \in BOOLEAN : ReadRecordingChannelGroup(p, c, lazy)
    \/ \E p \in PathsOf("source", "neo.unit"), c \in Cascades, lazy \in BOOLEAN :
          ReadUnit(p, c, lazy)

SpecCasc == Init /\ [][NextCasc]_vars

-----------------------------------------------------------------------------
(* Properties of the reads of one entity (checked under SpecCasc)          *)

ReadOps == {"read_block", "read_segment", "read_recordingchannelgroup",
            "read_unit"}

\* the child lists of a Neo object
ChildrenOf(x) ==
    x.segments \o x.recordingchannelgroups \o x.analogsignals
        \o x.irregularlysampledsignals \o x.epochs \o x.events
        \o x.spiketrains \o x.units

\* the keys a step put into the identity map or gave a new value
Registered ==
    {k \in DOMAIN object_map' :
        k \notin DOMAIN object_map \/ object_map'[k] # object_map[k]}

\* C11: a read of a Block, Segment, ChannelGroup or Unit with cascade=False
\* returns the entity with every child container empty, and registers that
\* one entity in the identity map and no other.
C11_NoCascadeNoChildren ==
    [][(ret'.op \in ReadOps /\ ret'.cascade = "False" /\ ret'.err = "") =>
          /\ ChildrenOf(heap'[ret'.val]) = <<>>
          /\ Registered = {NixKey(_get_object_at(objs, ret'.path).id)}]_vars

\* C11 for the three kinds whose read method builds no child: Block, Segment
\* and Unit.
C11_OtherKindsNoChildren ==
    [][(ret'.op \in ReadOps \ {"read_recordingchannelgroup"}
          /\ ret'.cascade = "False" /\ ret'.err = "") =>
          /\ ChildrenOf(heap'[ret'.val]) = <<>>
          /\ Registered = {NixKey(_get_object_at(objs, ret'.path).id)}]_vars

\* a ChannelGroup read with cascade=False whose Units came with it
C11_GroupReadBringsUnits ==
    /\ ret.op = "read_recordingchannelgroup" /\ ret.cascade = "False"
    /\ ret.err = ""
    /\ heap[ret.val].units # <<>>

-----------------------------------------------------------------------------
(* Attributes: one Block with every kind of child, distinct names,         *)
(* descriptions here and there                                             *)

\* the object with a description, when the flag is set
Desc(x, flag) == IF flag THEN [x EXCEPT !.description = <<"d">>] ELSE x

AttrBlocks ==
    {Desc(BlockOf(1, <<"B">>,
           <<Desc(FullSegment(2, <<"S">>,
                    <<Desc(Signal("AnalogSignal", 3, <<"A">>, 2, 0), fa),
                      Desc(Signal("IrregularlySampledSignal", 4, <<"I", ".", "x">>,
                                  1, 10), fa)>>,
                    <<Desc(Epoch(5, <<"E">>), fe)>>,
                    <<Desc(Event(6, <<"V">>), fv)>>,
                    <<Desc(SpikeTrain(7, <<"T">>, <<7>>), ft)>>), fs)>>,
           <<Desc(RCG(8, <<"G">>, <<>>, 1, <<Desc(Unit(9, <<"U">>, <<7>>), fu)>>,
                      <<3>>), fg)>>), fb)
        : fb \in BOOLEAN, fs \in BOOLEAN, fa \in BOOLEAN, fe \in BOOLEAN,
          fv \in BOOLEAN, ft \in BOOLEAN, fg \in BOOLEAN, fu \in BOOLEAN}

NextAttr == \E b \in AttrBlocks : objs = <<>> /\ WriteBlock(b)

SpecAttr == Init /\ [][NextAttr]_vars

-----------------------------------------------------------------------------
(* Properties of the written attributes (checked under SpecAttr)           *)

\* the entities of a Block other than its signals: the Block, its Segments
\* with their epochs, events and spike trains, its ChannelGroups with
\* their Units
PlainEntities(b) ==
    {b} \cup Range(b.segments) \cup Range(b.recordingchannelgroups)
        \cup UNION {Range(s.epochs) \cup Range(s.events) \cup Range(s.spiketrains)
                       : s \in Range(b.segments)}
        \cup UNION {Range(g.units) : g \in Range(b.recordingchannelgroups)}

TypeOf(cls) ==
    CASE cls = "Block" -> "neo.block"
      [] cls = "Segment" -> "neo.segment"
      [] cls = "RecordingChannelGroup" -> "neo.recordingchannelgroup"
      [] cls = "AnalogSignal" -> "neo.analogsignal"
      [] cls = "IrregularlySampledSignal" -> "neo.irregularlysampledsignal"
      [] cls = "Epoch" -> "neo.epoch"
      [] cls = "Event" -> "neo.event"
      [] cls = "SpikeTrain" -> "neo.spiketrain"
      [] cls = "Unit" -> "neo.unit"

\* C12: after write_block every entity with a non-empty name that no
\* sibling holds is in a container named like the entity (the Array of
\* channel i of a signal is named <name>.<i>), whose definition is the
\* entity's description and whose type is neo. followed by the lower-cased
\* kind.
C12_NameDefinitionType ==
    WroteOk =>
       /\ \A e \in PlainEntities(WrittenBlock) :
             /\ objs[Written(e.oid)].name = e.name
             /\ objs[Written(e.oid)].definition = e.description
             /\ objs[Written(e.oid)].type = TypeOf(e.cls)
       /\ \A s \in Range(WrittenBlock.segments) : \A sig \in SignalsOf(s) :
             /\ Len(Written(sig.oid)) = Len(sig.signal)
             /\ \A i \in 1..Len(Written(sig.oid)) :
                   /\ objs[Written(sig.oid)[i]].name
                          = sig.name \o <<".">> \o Str(i - 1)
                   /\ objs[Written(sig.oid)[i]].definition = sig.description
                   /\ objs[Written(sig.oid)[i]].type = TypeOf(sig.cls)

\* a Block written whose entities of every kind carry a description
C12_Witness ==
    /\ WroteOk
    /\ \A e \in PlainEntities(WrittenBlock) : e.description # <<>>
    /\ {e.cls : e \in PlainEntities(WrittenBlock)}
           = {"Block", "Segment", "RecordingChannelGroup", "Epoch", "Event",
              "SpikeTrain", "Unit"}
    /\ \A s \in Range(WrittenBlock.segments) :
          /\ {sig.cls : sig \in SignalsOf(s)} = SigClasses
          /\ \A sig \in SignalsOf(s) : sig.description # <<>>
    /\ \E i \in 1..Len(objs) : objs[i].definition = <<"d">> /\ objs[i].kind = "data_array"

-----------------------------------------------------------------------------
(* Segments read back: one Segment with one or two signals of either kind, *)
(* of one or two channels, with plain, dotted and empty names              *)

SigNames == {<<>>, <<"A">>, <<"A", ".", "x">>, <<"A", ".", "0">>}

SegBlocks ==
    {BlockOf(1, <<"B">>, <<SegmentOf(2, <<"S">>, sigs)>>, <<>>) :
        sigs \in {<<Signal(c, 3, n, K, 0)>> :
                      c \in SigClasses, n \in SigNames, K \in 1..2}
                 \cup {<<Signal(c, 3, n, K, 0), Signal(d, 4, m, 1, 20)>> :
                      c \in SigClasses, d \in SigClasses, n \in SigNames,
                      m \in SigNames, K \in 1..2}}

NextSeg ==
    \/ \E b \in SegBlocks : objs = <<>> /\ WriteBlock(b)
    \/ \E p \in PathsOf("group", "neo.segment"), c \in Cascades, lazy \in BOOLEAN,
          rev \in BOOLEAN : ReadSegment(p, c, lazy, rev)

SpecSeg == Init /\ [][NextSeg]_vars

-----------------------------------------------------------------------------
(* Properties of the Segment read back (checked under SpecSeg)             *)

\* the Segment of the written Block whose Group is at the path read
SegmentRead ==
    CHOOSE s \in Range(WrittenBlock.segments) :
        Written(s.oid) = _get_object_at(objs, ret.path).id

SegmentReadOk ==
    ret.op = "read_segment" /\ ret.cascade = "True" /\ ret.err = ""

\* C13: a read of a Segment with full cascade yields one signal for every
\* signal written, whatever its number of channels and its name: the K
\* Arrays of a signal make one signal of K channels, no signal comes twice
\* and none is lost, and each is in the container of its kind.
C13_OneSignalPerGroup ==
    SegmentReadOk =>
       \A attr \in {"analogsignals", "irregularlysampledsignals"} :
          LET read == heap[ret.val][attr]
              written == SegmentRead[attr]
          IN  /\ Len(read) = Len(written)
              /\ \A i \in 1..Len(written) :
                    LET x == ReadOf(Written(written[i].oid)[1])
                    IN  /\ Cardinality({j \in 1..Len(read) : read[j] = x}) = 1
                        /\ heap[x].cls = written[i].cls
                        /\ \A k \in 1..Len(written[i].signal) :
                              ReadOf(Written(written[i].oid)[k]) = x
                        /\ ~ret.lazy =>
                              Len(heap[x].signal) = Len(written[i].signal)

\* a Segment read with full cascade that holds a signal of two channels with
\* a dot in its name and a signal of the other kind
C13_Witness ==
    /\ SegmentReadOk /\ ~ret.lazy
    /\ \E s \in SignalsOf(SegmentRead) :
          /\ Len(s.signal) = 2
          /\ "." \in Range(s.name)
          /\ \E t \in SignalsOf(SegmentRead) : t.cls # s.cls
    /\ Len(heap[ret.val].analogsignals) = 1
    /\ Len(heap[ret.val].irregularlysampledsignals) = 1

-----------------------------------------------------------------------------
(* Annotations: a Block and its Segment annotated with values of every     *)
(* kind _to_value tells apart                                              *)

Scalars == {PyVal("num", 1), PyVal("str", "s")}

\* a sequence of scalars, with no, one and two items
FlatSeqs ==
    {PyVal("iter", <<>>), PyVal("iter", <<PyVal("num", 1)>>),
     PyVal("iter", <<PyVal("num", 1), PyVal("num", 2)>>)}

\* a physical quantity and a sequence of sequences
Unsupported ==
    {PyVal("quantity", 1), PyVal("iter", <<PyVal("iter", <<PyVal("num", 1)>>)>>)}

AnnValues == Scalars \cup FlatSeqs \cup Unsupported

AnnBlocks ==
    {[BlockOf(1, <<"B">>,
          <<[SegmentOf(2, <<"S">>, <<>>) EXCEPT !.annotations = sa]>>, <<>>)
         EXCEPT !.annotations = ba]
        : ba \in {<< <<"k", v>> >> : v \in AnnValues}
                 \cup {<< <<"k", v>>, <<"j", w>> >> : v \in AnnValues, w \in AnnValues},
          sa \in {<<>>, << <<"k", PyVal("num", 3)>> >>}}

NextAnn == \E b \in AnnBlocks : objs = <<>> /\ WriteBlock(b)

SpecAnn == Init /\ [][NextAnn]_vars

-----------------------------------------------------------------------------
(* Properties of the annotation codec (checked under SpecAnn)              *)

IsScalar(v) == v.t \notin {"quantity", "iter"}

IsFlatSeq(v) ==
    v.t = "iter" /\ Len(v.v) > 0 /\ \A i \in 1..Len(v.v) : IsScalar(v.v[i])

IsUnsupported(v) ==
    v.t = "quantity" \/ (v.t = "iter" /\ \E i \in 1..Len(v.v) : ~IsScalar(v.v[i]))

\* the values stored under a key of the section of a container (none when
\* the section has no such property)
Stored(nix_obj, k) ==
    IF HasProp(objs, nix_obj, k) THEN PropValues(objs, nix_obj, k) ELSE <<>>

\* C14: an annotation whose value is a flat, non-empty sequence of scalars
\* is written as a property with one stored value per element, in the
\* order of the sequence.
C14_FlatSequenceStored ==
    WroteOk =>
       \A i \in 1..Len(WrittenBlock.annotations) :
          LET k == WrittenBlock.annotations[i][1]
              v == WrittenBlock.annotations[i][2]
          IN  IsFlatSeq(v) =>
                 Stored(Written(WrittenBlock.oid), k)
                     = [j \in 1..Len(v.v) |-> v.v[j].v]

\* the annotations of the written Block whose value _to_value cannot store
UnsupportedKeys ==
    {WrittenBlock.annotations[i][1] :
        i \in {j \in 1..Len(WrittenBlock.annotations) :
                  IsUnsupported(WrittenBlock.annotations[j][2])}}

-----------------------------------------------------------------------------
(* neo2nix: the read methods under file_transaction                        *)

\* NixHelp.read_attributes: the properties of the section that are named in
\* attr_names
read_attributes(o, nix_section, attr_names) ==
    SelectSeq(o[nix_section].props, LAMBDA p : p.name \in attr_names)

\* NixHelp.read_annotations: the properties of the section that are not
\* named in exclude_attrs
read_annotations(o, nix_section, exclude_attrs) ==
    SelectSeq(o[nix_section].props, LAMBDA p : p.name \notin exclude_attrs)

\* NixIO._default_meta_attr_names + NixIO._block_meta_attrs
BlockMetaAttrs ==
    {"description", "file_origin", "file_datetime", "rec_datetime", "index"}

\* NixIO._read_block of neo2nix: the Block with its name, its attributes, its
\* annotations and the ProxyList of its segments
_read_block(st, block_id) ==
    Only({
    IF st.err # "" THEN Out(st, <<>>)
    ELSE IF nb.err # "" THEN Out(Raise(st, nb.err), <<>>)
    ELSE IF st.objs[nb.id].metadata = 0 THEN Out(Raise(st, "TypeError"), <<>>)
    ELSE Out(st, [name |-> st.objs[nb.id].name,
                  attrs |-> read_attributes(st.objs, st.objs[nb.id].metadata,
                                            BlockMetaAttrs),
                  annotations |-> read_annotations(st.objs, st.objs[nb.id].metadata,
                                                   BlockMetaAttrs),
                  segments |-> <<"ProxyList", "segment", st.objs[nb.id].name>>])
    : nb \in {get_block(st, block_id)} })

\* [self._read_block(nix_file, b.name) for b in nix_file.blocks]
RECURSIVE ReadBlocks2(_, _)
ReadBlocks2(st, names) ==
    IF st.err # "" \/ names = <<>> THEN Out(st, <<>>)
    ELSE Only({
         Only({
         Out(rest.st, <<r.val>> \o rest.val)
         : rest \in {ReadBlocks2(r.st, Tail(names))} })
         : r \in {_read_block(st, Head(names))} })

\* io.read_block(block_id) of neo2nix under file_transaction
N2ReadBlock(block_id) ==
    /\ LET done(r) ==
               /\ f2' = [objs |-> r.st.objs, open |-> r.st.err # ""]
               /\ ret2' = [ret2 EXCEPT !.op = "read_block", !.err = r.st.err,
                                       !.val = <<r.val>>]
       IN  done(_read_block(Ctx(f2.objs, <<>>, <<>>, <<>>), block_id))
    /\ UNCHANGED <<objs, object_map, lazy_loaded, heap, ret, neo2>>

\* io.read_all_blocks() of neo2nix under file_transaction
N2ReadAllBlocks ==
    /\ LET done(r) ==
               /\ f2' = [objs |-> r.st.objs, open |-> r.st.err # ""]
               /\ ret2' = [ret2 EXCEPT !.op = "read_all_blocks",
                                       !.err = r.st.err, !.val = r.val]
           blocks == ChildIds(f2.objs, 0, "block")
       IN  done(ReadBlocks2(Ctx(f2.objs, <<>>, <<>>, <<>>),
                            [i \in 1..Len(blocks) |-> f2.objs[blocks[i]].name]))
    /\ UNCHANGED <<objs, object_map, lazy_loaded, heap, ret, neo2>>

\* the ids a caller asks for: the name of the Block written and another one
BlockIds == {<<"b">>, <<"c">>}

NextTx ==
    \/ \E b \in Blocks2 : NewBlock(b)
    \/ \E i \in 1..MaxSegs : RemoveSegment(i)
    \/ \E recursive \in BOOLEAN, rev \in BOOLEAN : N2WriteBlock(recursive, rev)
    \/ \E id \in BlockIds : N2ReadBlock(id)
    \/ N2ReadAllBlocks

SpecTx == Init /\ [][NextTx]_vars

-----------------------------------------------------------------------------
(* Properties of file_transaction (checked under SpecTx)                   *)

\* C16: when read_all_blocks, read_block or write_block of neo2nix is over,
\* with a result or with an exception, the file handle it opened is
\* closed.
C16_HandleClosedOnExit ==
    ret2.op \in {"read_all_blocks", "read_block", "write_block"} => ~f2.open

-----------------------------------------------------------------------------
(* Paths: one Block whose entities have empty and equal names              *)

PathBlocks ==
    {BlockOf(1, nb,
        <<FullSegment(2, ns, <<>>, <<Epoch(4, ne)>>, <<Event(5, ne)>>,
                      <<SpikeTrain(6, nt, <<>>)>>),
          FullSegment(3, <<"A">>, <<>>, <<Epoch(7, ne)>>, <<>>, <<>>)>>,
        <<RCG(8, ng, <<>>, 1, <<Unit(10, nu, <<6>>)>>, <<>>),
          RCG(9, <<"G">>, <<>>, 1, <<Unit(11, nu, <<>>)>>, <<>>)>>)
        : nb \in Names2, ns \in Names2, ne \in Names2, nt \in Names2,
          ng \in {<<>>, <<"G">>}, nu \in Names2}

NextPath ==
    \/ \E b \in PathBlocks : objs = <<>> /\ WriteBlock(b)
    \/ \E p \in RootPaths, c \in Cascades, lazy \in BOOLEAN :
          ReadBlock(p, c, lazy, FALSE)

SpecPath == Init /\ [][NextPath]_vars

-----------------------------------------------------------------------------
(* Properties of the paths (checked under SpecPath)                        *)

\* object_path as the write method of a child composes it: the path of the
\* parent, the label of the child list, the name the container got
ChildPath(parent_path, label, e) ==
    parent_path \o <<"/", label, "/">> \o objs[Written(e.oid)].name

\* every entity of a written Block with the path composed when it was
\* written
WrittenPaths(b) ==
    LET bp == <<"/">> \o objs[Written(b.oid)].name
        sp(s) == ChildPath(bp, "segments", s)
        gp(g) == ChildPath(bp, "recordingchannelgroups", g)
    IN  {<<b, bp>>}
        \cup {<<s, sp(s)>> : s \in Range(b.segments)}
        \cup UNION {{<<x, ChildPath(sp(s), "epochs", x)>> : x \in Range(s.epochs)}
                    \cup {<<x, ChildPath(sp(s), "events", x)>> : x \in Range(s.events)}
                    \cup {<<x, ChildPath(sp(s), "spiketrains", x)>>
                             : x \in Range(s.spiketrains)}
                       : s \in Range(b.segments)}
        \cup {<<g, gp(g)>> : g \in Range(b.recordingchannelgroups)}
        \cup UNION {{<<u, ChildPath(gp(g), "units", u)>> : u \in Range(g.units)}
                       : g \in Range(b.recordingchannelgroups)}

\* the entities of the Block of the last write_block are all in the file
BlockWritten ==
    /\ ret.blocks # <<>>
    /\ \A e \in PlainEntities(WrittenBlock) : PyKey(e.oid) \in DOMAIN object_map

\* C17: for the Block, Segments, epochs, events, spike trains,
\* ChannelGroups and Units written by write_block, whatever their names,
\* the path composed when the entity was written resolves through
\* _get_object_at to the container the identity map holds for the entity:
\* right after the write and after every later read, where the object read
\* from that container is of the entity's kind.
C17_PathResolvesToRegistered ==
    BlockWritten =>
       \A pr \in WrittenPaths(WrittenBlock) :
          /\ _get_object_at(objs, pr[2]) = Found(Written(pr[1].oid))
          /\ NixKey(Written(pr[1].oid)) \in DOMAIN object_map =>
                heap[ReadOf(Written(pr[1].oid))].cls = pr[1].cls

\* a Block with unnamed and equally named entities, read back with full
\* cascade
C17_Witness ==
    /\ ret.op = "read_block" /\ ret.cascade = "True" /\ ret.err = ""
    /\ BlockWritten
    /\ WrittenBlock.name = <<>>
    /\ \A s \in Range(WrittenBlock.segments) : s.name = <<"A">>
    /\ \A g \in Range(WrittenBlock.recordingchannelgroups) :
          /\ g.name = <<"G">>
          /\ \A u \in Range(g.units) : u.name = <<>>
    /\ \A pr \in WrittenPaths(WrittenBlock) :
          NixKey(Written(pr[1].oid)) \in DOMAIN object_map

-----------------------------------------------------------------------------
(* Sources: Blocks whose ChannelGroups and Units refer to signals and      *)
(* spike trains of the Block, of the Block written before, or of no Block  *)

\* the oids of a Block are base + 1 .. base + 8; base + 9 is the oid of a
\* signal or spike train that is in no Segment, and 3 the oid of the
\* regular signal of the first Block
SrcBlocks(base) ==
    {BlockOf(base + 1, IF base = 0 THEN <<"B">> ELSE <<"C">>,
        <<FullSegment(base + 2, <<"S">>,
              <<Signal("AnalogSignal", base + 3, <<"A">>, 2, 0),
                Signal("IrregularlySampledSignal", base + 4, <<"I">>, 1, 10)>>,
              <<>>, <<>>, <<SpikeTrain(base + 5, <<"T">>, <<>>)>>)>>,
        <<[RCG(base + 6, <<"G">>, <<>>, 1, <<Unit(base + 7, <<"U">>, sts)>>, as)
              EXCEPT !.irregularlysampledsignals = is],
          RCG(base + 8, <<"H">>, <<>>, 1, <<>>, hs)>>)
        : as \in {<<>>, <<base + 3>>, <<base + 3, base + 9>>, <<3>>},
          is \in {<<>>, <<base + 4>>},
          sts \in {<<>>, <<base + 5>>, <<base + 9>>},
          hs \in {<<>>, <<base + 3>>}}

\* the caller writes a second Block when the first call returned
NextSrc ==
    \/ \E b \in SrcBlocks(Base) : Base <= 10 /\ ret.err = "" /\ WriteBlock(b)
    \/ \E b1 \in SrcBlocks(0), b2 \in SrcBlocks(10) :
          objs = <<>> /\ WriteAllBlocks(<<b1, b2>>)

SpecSrc == Init /\ [][NextSrc]_vars

-----------------------------------------------------------------------------
(* Properties of the Sources (checked under SpecSrc)                       *)

WroteAllOk == ret.op \in {"write_block", "write_all_blocks"} /\ ret.err = ""

\* the signals a ChannelGroup refers to
SignalRefs(g) == Range(g.analogsignals) \cup Range(g.irregularlysampledsignals)

\* the signals in the Segments of the Blocks of the call
SignalsWritten ==
    UNION {SignalsOf(s) : s \in UNION {Range(b.segments) : b \in Range(ret.blocks)}}

\* C18: after write_block, for every ChannelGroup G, the Source of G is among
\* the sources of each of the K Arrays of every signal G refers to, and
\* among the sources of no Array of a signal G does not refer to.
C18_GroupSourceOnItsSignals ==
    WroteAllOk =>
       \A b \in Range(ret.blocks) : \A g \in Range(b.recordingchannelgroups) :
          \A sig \in {x \in SignalsWritten : PyKey(x.oid) \in DOMAIN object_map} :
             /\ Len(Written(sig.oid)) = Len(sig.signal)
             /\ \A i \in 1..Len(Written(sig.oid)) :
                   Written(g.oid) \in Range(objs[Written(sig.oid)[i]].sources)
                       <=> sig.oid \in SignalRefs(g)

\* a Block written whose group G refers to a signal of two channels and to
\* a signal of one, and whose group H refers to the first only
C18_Witness ==
    /\ WroteOk
    /\ \E g, h \in Range(WrittenBlock.recordingchannelgroups) :
          /\ Cardinality(SignalRefs(g)) = 2
          /\ Cardinality(SignalRefs(h)) = 1
          /\ \E sig \in SignalsWritten :
                /\ Len(sig.signal) = 2
                /\ sig.oid \in SignalRefs(g) \cap SignalRefs(h)
                /\ \A i \in 1..2 :
                      {Written(g.oid), Written(h.oid)}
                          \subseteq Range(objs[Written(sig.oid)[i]].sources)

\* the Units of the Blocks of the call, each with its Block
UnitsWritten ==
    UNION {UNION {{<<b, u>> : u \in Range(g.units)}
                     : g \in Range(b.recordingchannelgroups)}
              : b \in Range(ret.blocks)}

\* C19: after write_all_blocks the Source of every Unit is found under the
\* Unit's name in the sources of the Block that holds the Unit's
\* ChannelGroup (nix_block.sources[unit.name]).
C19_UnitSourceInBlockSources ==
    (ret.op = "write_all_blocks" /\ ret.err = "") =>
       \A bu \in UnitsWritten :
          ByName(objs, Collection(objs, Written(bu[1].oid), "sources"), bu[2].name)
              = Written(bu[2].oid)

\* the oids a Block's ChannelGroups and Units refer to
RefsOf(b) ==
    UNION {SignalRefs(g) \cup UNION {Range(u.spiketrains) : u \in Range(g.units)}
              : g \in Range(b.recordingchannelgroups)}

\* the oids of the signals and spike trains in the Segments of a Block
InSegments(b) ==
    UNION {{x.oid : x \in SignalsOf(s) \cup Range(s.spiketrains)}
              : s \in Range(b.segments)}

\* the references of a Block to an entity that is neither in the identity
\* map m nor in a Segment of the Block
Dangling(b, m) ==
    {oid \in RefsOf(b) : PyKey(oid) \notin DOMAIN m /\ oid \notin InSegments(b)}

\* C20: write_block fails with KeyError exactly when a ChannelGroup refers
\* to a signal, or a Unit to a spike train, that no Segment written so far
\* holds, that is, when the looked-up entity was never registered; the
\* failed lookup registers nothing: the identity map keeps its entries, gets
\* entries for entities of the Block only, and none for the missing entity.
C20_KeyErrorIffNeverRegistered ==
    [][ret'.op = "write_block" =>
          /\ ret'.err \in {"", "KeyError"}
          /\ ret'.err = "KeyError" <=> Dangling(ret'.blocks[1], object_map) # {}
          /\ \A k \in DOMAIN object_map :
                k \in DOMAIN object_map' /\ object_map'[k] = object_map[k]
          /\ \A oid \in Dangling(ret'.blocks[1], object_map) :
                PyKey(oid) \notin DOMAIN object_map'
          /\ DOMAIN object_map' \ DOMAIN object_map
                \subseteq {PyKey(e.oid) : e \in PlainEntities(ret'.blocks[1])}
                          \cup {PyKey(oid) : oid \in InSegments(ret'.blocks[1])}]_vars

\* a second Block whose write failed on a Unit's spike train that is in no
\* Segment, while its ChannelGroup refers to a signal of the first Block
C20_Witness ==
    /\ ret.op = "write_block" /\ ret.err = "KeyError"
    /\ WrittenBlock.oid = 11
    /\ \E g \in Range(WrittenBlock.recordingchannelgroups) :
          /\ 3 \in SignalRefs(g)
          /\ PyKey(3) \in DOMAIN object_map
          /\ \E u \in Range(g.units) :
                \E oid \in Range(u.spiketrains) : PyKey(oid) \notin DOMAIN object_map

\* every reference of the Block is to a signal or spike train of its own
\* Segments
SelfContained(b) == RefsOf(b) \subseteq InSegments(b)

\* C21: write_block of a Block whose ChannelGroups and Units refer to
\* signals and spike trains of the Block's own Segments misses no lookup
\* in the identity map: the call returns normally, and every Segment with
\* every signal and spike train of it was created, and registered, before
\* the first ChannelGroup and the first Unit.
C21_SegmentsBeforeGroups ==
    (ret.op = "write_block" /\ SelfContained(WrittenBlock)) =>
       /\ ret.err = ""
       /\ \A g \in Range(WrittenBlock.recordingchannelgroups) :
             /\ \A s \in Range(WrittenBlock.segments) :
                   Written(s.oid) < Written(g.oid)
             /\ \A s \in Range(WrittenBlock.segments) :
                   /\ \A sig \in SignalsOf(s) :
                         /\ PyKey(sig.oid) \in DOMAIN object_map
                         /\ \A c \in Range(Written(sig.oid)) : c < Written(g.oid)
                   /\ \A t \in Range(s.spiketrains) :
                         /\ PyKey(t.oid) \in DOMAIN object_map
                         /\ Written(t.oid) < Written(g.oid)
             /\ \A u \in Range(g.units) : Written(g.oid) < Written(u.oid)

\* a Block written whose ChannelGroup refers to two signals of the Block and
\* whose Unit refers to a spike train of the Block
C21_Witness ==
    /\ WroteOk /\ SelfContained(WrittenBlock)
    /\ \E g \in Range(WrittenBlock.recordingchannelgroups) :
          /\ Cardinality(SignalRefs(g)) = 2
          /\ \E u \in Range(g.units) : u.spiketrains # <<>>

-----------------------------------------------------------------------------
(* Properties of the ChannelGroup read back (checked under SpecCasc)       *)

\* the ChannelGroup of the written Block whose Source is at the path read
GroupRead ==
    CHOOSE g \in Range(WrittenBlock.recordingchannelgroups) :
        Written(g.oid) = _get_object_at(objs, ret.path).id

\* C22: read_recordingchannelgroup with full cascade returns, whatever was
\* read before it, a ChannelGroup whose signal lists hold one signal for
\* every signal whose Arrays have the group's Source among their sources.
C22_GroupSignalsResolved ==
    (ret.op = "read_recordingchannelgroup" /\ ret.cascade = "True") =>
       /\ ret.err = ""
       /\ Len(heap[ret.val].analogsignals) = Len(GroupRead.analogsignals)
       /\ Len(heap[ret.val].irregularlysampledsignals)
              = Len(GroupRead.irregularlysampledsignals)

-----------------------------------------------------------------------------
(* The name mediator on its own: a Block whose arrays and tags carry any   *)
(* of the names the mediator can probe for the inputs below                *)

\* the selections out of a sequence of distinct names, each as a sequence in
\* the order of the given one
RECURSIVE Picks(_)
Picks(names) ==
    IF names = <<>> THEN {<<>>}
    ELSE {<<Head(names)>> \o p : p \in Picks(Tail(names))} \cup Picks(Tail(names))

NamesInOrder ==
    <<<<"A">>, <<"A", "-", "1">>, <<"A", "-", "2">>,
      <<"A", ".", "0">>, <<"A", "-", "1", ".", "0">>, <<"A", "-", "2", ".", "0">>,
      <<"neo", ".", "Epoch">>, <<"neo", ".", "AnalogSignal", ".", "0">>>>

\* a file with one Block that owns arrays and tags of the given names
FileWith(names) ==
    <<[NixBlank EXCEPT !.kind = "block", !.name = <<"B">>, !.type = "neo.block"]>>
    \o [i \in 1..Len(names) |->
           [NixBlank EXCEPT !.kind = "data_array", !.parent = 1,
                            !.name = names[i], !.type = "neo.analogsignal"]]
    \o [i \in 1..Len(names) |->
           [NixBlank EXCEPT !.kind = "multi_tag", !.parent = 1,
                            !.name = names[i], !.type = "neo.epoch"]]

InitMed ==
    /\ objs \in {FileWith(p) : p \in Picks(NamesInOrder)}
    /\ object_map = <<>>
    /\ lazy_loaded = <<>>
    /\ heap = <<>>
    /\ ret = RetBlank
    /\ f2 = [objs |-> <<>>, open |-> FALSE]
    /\ neo2 = <<>>
    /\ ret2 = Ret2Blank

\* the collection write_analogsignal, write_irregularlysampledsignal and
\* write_epoch hand to the mediator: the arrays or the tags of the Block
SiblingNames(neo_obj) ==
    NamesOf(objs, ChildIds(objs, 1,
                           IF neo_obj.cls = "Epoch" THEN "multi_tag"
                           ELSE "data_array"))

\* attr = self._neo_attr_to_nix(neo_obj, container); path holds attr["name"]
MediateName(neo_obj) ==
    /\ ret' = [RetBlank EXCEPT !.op = "_neo_attr_to_nix", !.blocks = <<neo_obj>>,
                  !.path = _neo_attr_to_nix(neo_obj, SiblingNames(neo_obj)).name]
    /\ UNCHANGED <<objs, object_map, lazy_loaded, heap, f2, neo2, ret2>>

MedInputs ==
    {Neo(cls, 1, n) : cls \in SigClasses \cup {"Epoch"}, n \in Names2}

NextMed == \E x \in MedInputs : MediateName(x)

SpecMed == InitMed /\ [][NextMed]_vars

-----------------------------------------------------------------------------
(* Properties of the name mediator on its own (checked under SpecMed)      *)

\* the base name and the probe suffix of an entity
BaseName(x) == IF x.name # <<>> THEN x.name ELSE <<"neo", ".", x.cls>>
ProbeSuffix(x) == IF x.cls \in SigClasses THEN <<".", "0">> ELSE <<>>

\* C23: for base name b and probe suffix s, _neo_attr_to_nix returns b when
\* b+s is not in the collection, and otherwise b-k for the least k >= 1
\* such that (b-k)+s is not in the collection; the probe of the name it
\* returns is never in the collection.
C23_LeastFreeSuffix ==
    ret.op = "_neo_attr_to_nix" =>
       LET x == ret.blocks[1]
           b == BaseName(x)
           s == ProbeSuffix(x)
           C == SiblingNames(x)
       IN  /\ (b \o s) \notin C => ret.path = b
           /\ (b \o s) \in C =>
                 \E k \in 1..(Cardinality(C) + 1) :
                    /\ ret.path = b \o <<"-">> \o Str(k)
                    /\ \A j \in 1..(k - 1) : (b \o <<"-">> \o Str(j) \o s) \in C
           /\ (ret.path \o s) \notin C

\* a signal named A met A.0 and A-1.0 and also the bare name A-2, and got
\* the name A-2
C23_Witness ==
    /\ ret.op = "_neo_attr_to_nix"
    /\ ret.blocks[1].cls = "AnalogSignal"
    /\ {<<"A", ".", "0">>, <<"A", "-", "1", ".", "0">>, <<"A", "-", "2">>}
           \subseteq SiblingNames(ret.blocks[1])
    /\ ret.path = <<"A", "-", "2">>

-----------------------------------------------------------------------------
(* Spike trains with waveforms: written with a Block, read one by one      *)

\* io.read_spiketrain(path, lazy)
ReadSpikeTrain(path, lazy) ==
    /\ Len(heap) < MaxReads
    /\ LET done(r) ==
               Commit(r.st, [RetBlank EXCEPT !.op = "read_spiketrain",
                                !.path = path, !.lazy = lazy, !.val = r.val,
                                !.blocks = ret.blocks])
       IN  done(read_eest(Now, path, lazy))

\* the left_sweep of a spike train: not given, zero, or 5
LeftSweeps == {<<>>, <<0>>, <<5>>}

\* one Segment with two spike trains: the first has waveforms, the second
\* has waveforms or none
WfBlocks ==
    {BlockOf(1, <<"B">>,
        <<FullSegment(2, <<"S">>, <<>>, <<>>, <<>>,
             <<[SpikeTrain(3, n, <<7>>) EXCEPT !.left_sweep = ls1],
               [SpikeTrain(4, <<"T">>, wf) EXCEPT !.left_sweep = ls2]>>)>>,
        <<>>)
        : n \in Names2, ls1 \in LeftSweeps, wf \in {<<>>, <<7, 8>>},
          ls2 \in {<<>>, <<5>>}}

\* the paths of the spike trains in the file
SpikePaths ==
    {PathOf(objs, g) \o <<"/", "spiketrains", "/">> \o objs[m].name :
        g \in {x \in 1..Len(objs) : objs[x].kind = "group"},
        m \in {x \in 1..Len(objs) : objs[x].type = "neo.spiketrain"}}

NextWf ==
    \/ \E b \in WfBlocks : objs = <<>> /\ WriteBlock(b)
    \/ \E p \in SpikePaths, lazy \in BOOLEAN : ReadSpikeTrain(p, lazy)

SpecWf == Init /\ [][NextWf]_vars

-----------------------------------------------------------------------------
(* Properties of the spike trains read back (checked under SpecWf)         *)

\* the spike train of the written Block that the last read addressed
SpikeTrainRead ==
    CHOOSE t \in Range(WrittenBlock.segments[1].spiketrains) :
        Written(t.oid) = _get_object_at(objs, ret.path).id

\* C24: a spike train that write_spiketrain wrote with waveforms, with or
\* without a non-zero left_sweep, is read back by a non-lazy
\* read_spiketrain without an error, with the waveforms, the sampling
\* interval and the left_sweep that were stored.
C24_WaveformsReadBack ==
    (ret.op = "read_spiketrain" /\ ~ret.lazy
        /\ SpikeTrainRead.waveforms # <<>>) =>
       /\ ret.err = ""
       /\ heap[ret.val].waveforms = SpikeTrainRead.waveforms
       /\ heap[ret.val].sampling_period = SpikeTrainRead.sampling_period
       /\ SpikeTrainRead.left_sweep # <<>> =>
             heap[ret.val].left_sweep = SpikeTrainRead.left_sweep

\* with a non-zero left_sweep the spike train is read back as stored
C24_NonZeroSweepReadBack ==
    (ret.op = "read_spiketrain" /\ ~ret.lazy
        /\ SpikeTrainRead.waveforms # <<>>
        /\ SpikeTrainRead.left_sweep \notin {<<>>, <<0>>}) =>
       /\ ret.err = ""
       /\ heap[ret.val].waveforms = SpikeTrainRead.waveforms
       /\ heap[ret.val].sampling_period = SpikeTrainRead.sampling_period
       /\ heap[ret.val].left_sweep = SpikeTrainRead.left_sweep

\* a spike train with waveforms and no left_sweep was read, not lazily
C24_NoSweepRead ==
    /\ ret.op = "read_spiketrain" /\ ~ret.lazy
    /\ SpikeTrainRead.waveforms # <<>>
    /\ SpikeTrainRead.left_sweep = <<>>

-----------------------------------------------------------------------------
(* ChannelGroups with no, one or two channels, written with a Block and    *)
(* read one by one                                                         *)

\* the channel indexes of a group: none, one, or two in falling order
ChannelIndexes == {<<>>, <<3>>, <<3, 1>>}

ChanBlocks ==
    {BlockOf(1, <<"B">>, <<>>,
        <<[RCG(6, <<"G">>, <<>>, 0, units, <<>>) EXCEPT
              !.channel_indexes = ci,
              !.coordinates = IF wc THEN [i \in 1..Len(ci) |-> <<PyVal("num", i)>>]
                              ELSE <<>>]>>)
        : ci \in ChannelIndexes, wc \in BOOLEAN,
          units \in {<<>>, <<Unit(7, <<"U">>, <<>>)>>}}

NextChan ==
    \/ \E b \in ChanBlocks : objs = <<>> /\ WriteBlock(b)
    \/ \E p \in PathsOf("source", "neo.recordingchannelgroup"), c \in Cascades,
          lazy \in BOOLEAN : ReadRecordingChannelGroup(p, c, lazy)

SpecChan == Init /\ [][NextChan]_vars

-----------------------------------------------------------------------------
(* Properties of the channels read back (checked under SpecChan)           *)

\* C25: a ChannelGroup written with n >= 0 channels (n = 0 included), with
\* or without coordinates and Units, is read back without an error and
\* with the channel indexes that were written, in their order; the Sources
\* of its Units are not counted as channels.
C25_ChannelIndexesReadBack ==
    ret.op = "read_recordingchannelgroup" =>
       /\ ret.err = ""
       /\ heap[ret.val].channel_indexes = GroupRead.channel_indexes

\* with one channel or more the indexes come back as written
C25_SomeChannelsReadBack ==
    (ret.op = "read_recordingchannelgroup"
        /\ GroupRead.channel_indexes # <<>>) =>
       /\ ret.err = ""
       /\ heap[ret.val].channel_indexes = GroupRead.channel_indexes

\* a group without channels and with a Unit was read
C25_NoChannelsRead ==
    /\ ret.op = "read_recordingchannelgroup"
    /\ GroupRead.channel_indexes = <<>>
    /\ GroupRead.units # <<>>
    /\ ret.err = "IndexError"

-----------------------------------------------------------------------------
(* neo2nix: a Segment whose signals are taken out between two writes       *)

\* del segment.analogsignals[j - 1] on the first Segment of the Block
RemoveSignal(j) ==
    /\ neo2 # <<>>
    /\ neo2.segments # <<>>
    /\ j \in 1..Len(neo2.segments[1].analogsignals)
    /\ neo2' = [neo2 EXCEPT !.segments[1].analogsignals =
                   SubSeq(@, 1, j - 1) \o SubSeq(@, j + 1, Len(@))]
    /\ ret2' = [ret2 EXCEPT !.op = "remove_signal", !.err = "",
                            !.pending = @ + 1]
    /\ UNCHANGED <<objs, object_map, lazy_loaded, heap, ret, f2>>

MaxSigs == 3

SigNames2 == <<<<"a">>, <<"b">>, <<"c">>, <<"d">>>>

\* one Segment with up to MaxSigs signals of distinct names
UnlinkBlocks ==
    {BlockOf(0, <<"b">>,
        <<SegmentOf(0, <<"s">>,
             [i \in 1..Len(p) |-> Signal("AnalogSignal", 0, p[i], 1, 0)])>>,
        <<>>)
        : p \in Picks(SubSeq(SigNames2, 1, MaxSigs))}

NextUnlink ==
    \/ \E b \in UnlinkBlocks : NewBlock(b)
    \/ \E j \in 1..MaxSigs : RemoveSignal(j)
    \/ \E recursive \in BOOLEAN, rev \in BOOLEAN : N2WriteBlock(recursive, rev)

SpecUnlink == Init /\ [][NextUnlink]_vars

-----------------------------------------------------------------------------
(* Properties of the references of a Segment (checked under SpecUnlink)    *)

\* the container of the first Segment of the caller's Block
SegmentTag ==
    CHOOSE t \in SegmentTags : f2.objs[t].name = neo2.segments[1].name

\* the names of the arrays of type neo_analogsignal the tag refers to
SignalRefNames ==
    {f2.objs[x].name : x \in {y \in Range(f2.objs[SegmentTag].references) :
                                 f2.objs[y].type = "neo_analogsignal"}}

\* the names the current signals of the Segment get
CurrentNames ==
    {get_obj_nix_name(x, neo2.segments[1].name) :
        x \in Range(neo2.segments[1].analogsignals)}

Rewritten ==
    /\ ret2.op = "write_block" /\ ret2.err = "" /\ ret2.recursive
    /\ ret2.before >= 1

\* C26: a Segment is written again (recursive) after signals were taken
\* out of it: for every number of signals taken out, the references of
\* type neo_analogsignal of its container are precisely the arrays of the
\* current signals.
C26_ReferencesAreCurrentSignals ==
    (Rewritten /\ ret2.removed >= 1) => SignalRefNames = CurrentNames

\* a write that finds exactly one reference that is no longer expected
\* leaves the references of the current signals
C26_OneStaleUnlinked ==
    [][(/\ ret2'.op = "write_block" /\ ret2'.err = "" /\ ret2'.recursive
        /\ ret2.now >= 1
        /\ Cardinality(SignalRefNames \ CurrentNames) = 1)
          => (SignalRefNames = CurrentNames)']_vars

\* the arrays of the signals taken out stay in the Block
C26_ArraysKept ==
    [][ret2'.op = "write_block" =>
          \A i \in 1..Len(f2.objs) :
             f2.objs[i].kind = "data_array" =>
                \E k \in 1..Len(f2'.objs) :
                   /\ f2'.objs[k].kind = "data_array"
                   /\ f2'.objs[k].name = f2.objs[i].name]_vars

\* two signals were taken out and one of them is still referred to
C26_StaleReference ==
    /\ Rewritten /\ ret2.removed = 2
    /\ SignalRefNames # CurrentNames

-----------------------------------------------------------------------------
(* neo2nix: the name codec on its own. A name is the sequence of its       *)
(* characters                                                              *)

\* x.split('@@')[0]: the characters before the first "@@", all of x when
\* there is none
BeforeSeparator(x) ==
    LET at == {i \in 1..(Len(x) - 1) : x[i] = "@" /\ x[i + 1] = "@"}
    IN  IF at = {} THEN x
        ELSE SubSeq(x, 1, (CHOOSE i \in at : \A j \in at : i <= j) - 1)

\* NixHelp.get_obj_neo_name: x.split('@@')[0][:-1]
get_obj_neo_name(nix_name) ==
    SubSeq(BeforeSeparator(nix_name), 1, Len(BeforeSeparator(nix_name)) - 1)

CodecKinds == {"analogsignal", "spiketrain", "event", "epoch"}

MaxName == 2

\* the names of up to MaxName characters out of "a", "@" and the blank,
\* and one name that holds the separator
CodecNames ==
    UNION {SeqsOf({"a", "@", " "}, n) : n \in 0..MaxName}
        \cup {<<"a", " ", "@", "@", " ", "b">>}

CodecParents == {<<"s">>, <<"b", " ", "@", "@", " ", "s">>}

\* two entities get their container names, the names are turned back
CodecCall(kind, n1, p1, n2, p2) ==
    /\ ret2 = Ret2Blank
    /\ ret2' = [Ret2Blank EXCEPT
                   !.op = "get_obj_neo_name",
                   !.val = [kind |-> kind, n1 |-> n1, p1 |-> p1,
                            n2 |-> n2, p2 |-> p2,
                            nix1 |-> get_obj_nix_name(Neo(kind, 0, n1), p1),
                            nix2 |-> get_obj_nix_name(Neo(kind, 0, n2), p2),
                            neo1 |-> get_obj_neo_name(
                                        get_obj_nix_name(Neo(kind, 0, n1), p1))]]
    /\ UNCHANGED <<objs, object_map, lazy_loaded, heap, ret, f2, neo2>>

NextCodec ==
    \E kind \in CodecKinds, n1 \in CodecNames, n2 \in CodecNames,
       p1 \in CodecParents, p2 \in CodecParents :
          CodecCall(kind, n1, p1, n2, p2)

SpecCodec == Init /\ [][NextCodec]_vars

-----------------------------------------------------------------------------
(* Properties of the name codec (checked under SpecCodec)                  *)

HasSeparator(x) == BeforeSeparator(x) # x

\* C27: for every name n and parent p, and each of the kinds analogsignal,
\* spiketrain, event and epoch, get_obj_neo_name turns the container name
\* of (n, p) back into n; two entities with different (name, parent)
\* pairs never get the same container name.
C27_CodecRoundTrip ==
    ret2.op = "get_obj_neo_name" =>
       /\ ret2.val.neo1 = ret2.val.n1
       /\ <<ret2.val.n1, ret2.val.p1>> # <<ret2.val.n2, ret2.val.p2>>
             => ret2.val.nix1 # ret2.val.nix2

\* names that do not hold "@@" are turned back and told apart
C27_PlainNamesRoundTrip ==
    (ret2.op = "get_obj_neo_name"
        /\ ~HasSeparator(ret2.val.n1) /\ ~HasSeparator(ret2.val.n2)) =>
       /\ ret2.val.neo1 = ret2.val.n1
       /\ <<ret2.val.n1, ret2.val.p1>> # <<ret2.val.n2, ret2.val.p2>>
             => ret2.val.nix1 # ret2.val.nix2

\* two different pairs got one container name
C27_SameContainerName ==
    /\ ret2.op = "get_obj_neo_name"
    /\ <<ret2.val.n1, ret2.val.p1>> # <<ret2.val.n2, ret2.val.p2>>
    /\ ret2.val.nix1 = ret2.val.nix2

-----------------------------------------------------------------------------
(* Entities of different kinds with equal names: a Segment and a           *)
(* ChannelGroup of one Block, a signal and an epoch, event or spike train  *)
(* of one Segment                                                          *)

SectBlocks(base) ==
    {BlockOf(base + 1, <<"B">>,
        <<FullSegment(base + 2, n1,
             <<Signal("AnalogSignal", base + 3, <<"A">>, 1, 0)>>,
             <<Epoch(base + 4, n3)>>, <<Event(base + 5, n4)>>,
             <<SpikeTrain(base + 6, n5, <<>>)>>)>>,
        <<RCG(base + 7, n2, <<>>, 1, <<>>, <<>>)>>)
        : n1 \in {<<"S">>, <<"G">>}, n2 \in {<<"G">>},
          n3 \in {<<"A">>, <<"E">>}, n4 \in {<<"A">>, <<"V">>},
          n5 \in {<<"A">>, <<"T">>}}

NextSect ==
    \E b \in SectBlocks(Base) : Base <= 10 /\ WriteBlock(b)

SpecSect == Init /\ [][NextSect]_vars

-----------------------------------------------------------------------------
(* Properties of the metadata sections (checked under SpecSect)            *)

\* the names of the entities of the Block written last, kind by kind
EntityNames(b) ==
    <<{s.name : s \in Range(b.segments)}
        \cup {g.name : g \in Range(b.recordingchannelgroups)},
      UNION {{x.name : x \in Range(s.analogsignals) \cup Range(s.epochs)
                              \cup Range(s.events) \cup Range(s.spiketrains)}
                : s \in Range(b.segments)}>>

\* the number of entities the sets above were taken from
EntityCount(b) ==
    <<Len(b.segments) + Len(b.recordingchannelgroups),
      Len(b.segments[1].analogsignals) + Len(b.segments[1].epochs)
          + Len(b.segments[1].events) + Len(b.segments[1].spiketrains)>>

\* no two entities under one parent share a name, whatever their kinds
NamesApart(b) ==
    /\ Cardinality(EntityNames(b)[1]) = EntityCount(b)[1]
    /\ Cardinality(EntityNames(b)[2]) = EntityCount(b)[2]

\* C28: after any write_block, for every combination of entity names,
\* equal names of entities of different kinds included, no metadata
\* section was created with a name its parent section already holds, and
\* the child sections of every section have pairwise distinct names.
C28_SectionNamesDistinct ==
    ret.op = "write_block" =>
       /\ ret.err # "DuplicateName.section"
       /\ \A i \in 1..Len(objs) : \A j \in 1..Len(objs) :
             (Siblings(objs, i, j) /\ objs[i].kind = "section")
                 => objs[i].name # objs[j].name

\* when the names differ across the kinds the sections are created
C28_NamesApartNoClash ==
    (ret.op = "write_block" /\ NamesApart(WrittenBlock)) =>
       /\ ret.err = ""
       /\ \A i \in 1..Len(objs) : \A j \in 1..Len(objs) :
             (Siblings(objs, i, j) /\ objs[i].kind = "section")
                 => objs[i].name # objs[j].name

\* a Segment and a ChannelGroup of one name: the write ended on the
\* section of the second
C28_SegmentAndGroupClash ==
    /\ ret.op = "write_block"
    /\ WrittenBlock.segments[1].name = WrittenBlock.recordingchannelgroups[1].name
    /\ ret.err = "DuplicateName.section"

-----------------------------------------------------------------------------
(* The path resolver on its own: any path string, on an empty file or on   *)
(* a file with one Block                                                   *)

\* self._get_object_at(path)
GetObjectAt(path) ==
    /\ ret' = [RetBlank EXCEPT !.op = "_get_object_at", !.path = path,
                  !.err = _get_object_at(objs, path).err,
                  !.val = _get_object_at(objs, path).id,
                  !.blocks = ret.blocks]
    /\ UNCHANGED <<objs, object_map, lazy_loaded, heap, f2, neo2, ret2>>

ResolveBlocks ==
    {BlockOf(1, nb,
        <<FullSegment(2, ns, <<>>, <<Epoch(3, <<"E">>)>>, <<>>, <<>>)>>, <<>>)
        : nb \in {<<"A">>, <<"B">>, <<"segments">>},
          ns \in {<<"A">>, <<"S">>, <<"B">>}}

\* the empty path, paths without the leading '/', paths that end on the
\* label of a container, paths of absent names and paths of the entities
ProbePaths ==
    {<<>>, <<"/">>, <<"B">>, <<"B", "/", "segments">>,
     <<"/", "B">>, <<"/", "X">>,
     <<"/", "B", "/", "segments">>,
     <<"/", "B", "/", "segments", "/", "S">>,
     <<"/", "B", "/", "segments", "/", "X">>,
     <<"/", "B", "/", "nothing", "/", "S">>,
     <<"/", "X", "/", "segments", "/", "S">>,
     <<"/", "B", "/", "segments", "/", "S", "/", "epochs">>,
     <<"/", "B", "/", "segments", "/", "S", "/", "epochs", "/", "E">>,
     <<"/", "B", "/", "segments", "/", "S", "/", "segments", "/", "S">>,
     <<"B", "/", "segments", "/", "S", "/", "epochs">>}

NextResolve ==
    \/ \E b \in ResolveBlocks : objs = <<>> /\ WriteBlock(b)
    \/ \E p \in ProbePaths : GetObjectAt(p)

SpecResolve == Init /\ [][NextResolve]_vars

-----------------------------------------------------------------------------
(* Properties of the path resolver (checked under SpecResolve)             *)

\* a path of the form /name or /name/label/name/...: an empty first part
\* and an even number of parts
WellFormed(path) ==
    /\ Len(split(path, "/")) % 2 = 0
    /\ split(path, "/")[1] = <<>>

\* C29: _get_object_at comes to an end for every path string, the empty
\* string, a path without the leading '/' and a path that ends on the
\* label of a container included: it returns the container at the path or
\* fails with the error of a lookup; a root path /<name> is resolved in
\* the blocks of the file.
C29_ResolveEnds ==
    ret.op = "_get_object_at" =>
       /\ ret.err # "RecursionError"
       /\ (Len(split(ret.path, "/")) = 2 /\ ret.err = "") =>
             /\ objs[ret.val].kind = "block"
             /\ objs[ret.val].name = split(ret.path, "/")[2]

\* a path with an even number of parts is resolved or fails with the
\* error of a lookup
C29_EvenPathsEnd ==
    (ret.op = "_get_object_at" /\ Len(split(ret.path, "/")) % 2 = 0) =>
       /\ ret.err \in {"", "KeyError", "AttributeError"}
       /\ (ret.err = "" /\ WellFormed(ret.path)) =>
             /\ objs[ret.val].name = split(ret.path, "/")[Len(split(ret.path, "/"))]
             /\ objs[ret.val].kind \in {"block", "group"} =>
                   PathOf(objs, ret.val) = ret.path

\* a path without the leading '/' took the first part for nothing and
\* found the Block of the name of the second part
C29_NoLeadingSlashResolved ==
    /\ ret.op = "_get_object_at" /\ ret.err = ""
    /\ ret.path = <<"B", "/", "segments">>

\* the path that ends on a label did not reach a base case
C29_DanglingLabelRecurses ==
    /\ ret.op = "_get_object_at"
    /\ ret.path = <<"/", "B", "/", "segments">>
    /\ objs # <<>>
    /\ ret.err = "RecursionError"

-----------------------------------------------------------------------------
(* Properties of a second write of the same Block (checked under           *)
(* SpecUnlink)                                                             *)

\* the Block was written (recursive), nothing was done to it since, and
\* it is written again (recursive)
WrittenAgain ==
    /\ ret2.op = "write_block" /\ ret2.err = "" /\ ret2.recursive
    /\ ret2'.op = "write_block" /\ ret2'.recursive

\* C30: write_block of the same unchanged Block twice in a row
\* (recursive) leaves the store as it was after the first write: blocks,
\* containers of Segments, arrays, references, sections and properties.
C30_SecondWriteChangesNothing ==
    [][WrittenAgain => (ret2'.err = "" /\ f2'.objs = f2.objs)]_vars

\* when the first write left the references of the current signals, the
\* second write changes nothing
C30_SettledSecondWrite ==
    [][(WrittenAgain /\ SignalRefNames = CurrentNames)
          => (ret2'.err = "" /\ f2'.objs = f2.objs)]_vars

\* after a write of the unchanged Block the references are those of the
\* current signals, and an array of a signal taken out is still in the Block
C30_SecondWriteUnlinks ==
    /\ ret2.op = "write_block" /\ ret2.err = "" /\ ret2.recursive
    /\ ret2.before >= 1 /\ ret2.removed = 0
    /\ SignalRefNames = CurrentNames
    /\ \E x \in 1..Len(f2.objs) :
          /\ f2.objs[x].type = "neo_analogsignal"
          /\ f2.objs[x].name \notin CurrentNames
====
